---- MODULE Spec2Model ----
(***************************************************************************)
(* A model of omakure's interactive session: the form that is generated    *)
(* from a script's schema, the hand-off of an execution request to the     *)
(* runner, the history list, and the search index with its background      *)
(* rebuild and its shared status cell.                                     *)
(*                                                                         *)
(* Conventions.  A Rust String that the code inspects character by         *)
(* character (a field name, an input buffer, a default, an argument) is a  *)
(* sequence of one-character strings; an opaque String (a message) is a    *)
(* TLA+ string.  Option<T> is a sequence of length at most one: <<>> is    *)
(* None and <<x>> is Some(x).  A path is the sequence of its components.   *)
(* Indices kept by the program (selection, field_index) are 0-based as in  *)
(* the code; sequences are 1-based, hence the "+ 1" where one indexes the  *)
(* other.                                                                  *)
(***************************************************************************)
EXTENDS Integers, Sequences, FiniteSets, TLC

VARIABLES
    \* ---- App (adapters/tui/app.rs) ----
    screen,            \* Screen
    selection,         \* index into entries
    preview_script,    \* Option<PathBuf>
    schema_cache,      \* Option<(PathBuf, Schema)>
    fields,            \* Vec<Field>, the form
    field_index,       \* usize
    field_inputs,      \* Vec<String>
    args,              \* Vec<String>
    error,             \* Option<String>
    selected_script,   \* Option<PathBuf>
    result,            \* Option<(PathBuf, Vec<String>)>: the execution request
    should_quit,       \* bool
    history,           \* Vec<HistoryEntry>
    history_selection, \* usize
    history_focus,     \* HistoryFocus
    env_config,        \* Option<EnvironmentConfig>
    \* ---- run_app (adapters/tui/mod.rs) ----
    running,           \* the locals (script, args) of run_app during the runner call
    now,               \* the wall clock, in milliseconds
    runs,              \* how many scripts the session has opened to run (bounds the model)
    \* ---- the environments directory on disk ----
    activeFile,        \* the pointer file: Option of its text
    \* ---- search (app.rs, search_index.rs) ----
    search_query,      \* String
    search_results,    \* Vec<SearchResult>
    search_selection,  \* usize
    search_details,    \* Option<SearchDetails>
    search_status,     \* SearchStatus, as the session saw it last
    search_error,      \* Option<String>
    pending,           \* where the session thread is inside load_details
    status,            \* the shared cell Arc<Mutex<SearchStatus>>
    worker,            \* where the rebuild worker thread is
    txn,               \* the worker's open transaction: Option<tables, next script>
    db,                \* the committed tables of the search store
    \* ---- the directory list and its status panel (app.rs) ----
    current_dir,       \* PathBuf
    entries,           \* Vec<WorkspaceEntry>
    widget,            \* Option<WidgetData>
    widget_error,      \* Option<String>
    widget_loading,    \* bool
    widget_receiver,   \* Option<Receiver>: the load whose channel the session holds
    loads,             \* the status-panel loads started so far, each with its worker
    \* ---- the operating system ----
    processes,         \* the child processes launched so far, and who waited for each
    history_dir,       \* the files of the history directory
    reloaded,          \* Option<Vec<HistoryEntry>>: what the next session loads
    history_writable,  \* whether fs::write succeeds in the history directory
    call,              \* Option: the arguments of a function called on its own
    returned,          \* Option: what that call returned
    resolutions,       \* how often service.load_schema was called since App::new
    env_entries,       \* the names list_env_files gave at the last load_env_config
    env_selection      \* the cursor of the environments list

----------------------------------------------------------------------------
(* Bounds of the model *)

\* most characters the input buffers of one form hold together before typing stops
MaxChars == 1
\* most scripts one session runs
MaxRuns == 1

None == <<>>
Some(x) == <<x>>

----------------------------------------------------------------------------
(* Strings *)

UpperChars == <<"A","B","C","D","E","F","G","H","I","J","K","L","M",
                "N","O","P","Q","R","S","T","U","V","W","X","Y","Z">>
LowerChars == <<"a","b","c","d","e","f","g","h","i","j","k","l","m",
                "n","o","p","q","r","s","t","u","v","w","x","y","z">>
Digits == {"0","1","2","3","4","5","6","7","8","9"}

\* char::to_ascii_lowercase
to_ascii_lowercase_char(c) ==
    IF \E i \in 1..26 : UpperChars[i] = c
    THEN LowerChars[CHOOSE i \in 1..26 : UpperChars[i] = c]
    ELSE c

\* str::to_lowercase / str::to_ascii_lowercase (they agree on ASCII text)
to_lowercase(s) == [i \in 1..Len(s) |-> to_ascii_lowercase_char(s[i])]

\* char::is_whitespace, on the characters of the model
IsWhitespace(c) == c \in {" ", "\n"}

RECURSIVE trim_start(_)
trim_start(s) ==
    IF s # <<>> /\ IsWhitespace(Head(s)) THEN trim_start(Tail(s)) ELSE s

RECURSIVE trim_end(_)
trim_end(s) ==
    IF s # <<>> /\ IsWhitespace(s[Len(s)])
    THEN trim_end(SubSeq(s, 1, Len(s) - 1))
    ELSE s

\* str::trim
trim(s) == trim_end(trim_start(s))

\* str::lines: the lines between line feeds, without a last empty one
RECURSIVE lines(_)
lines(contents) ==
    IF contents = <<>> THEN <<>>
    ELSE IF \E i \in 1..Len(contents) : contents[i] = "\n"
    THEN LET n == CHOOSE i \in 1..Len(contents) :
                     contents[i] = "\n" /\ \A j \in 1..(i - 1) : contents[j] # "\n"
         IN  <<SubSeq(contents, 1, n - 1)>> \o lines(SubSeq(contents, n + 1, Len(contents)))
    ELSE <<contents>>

\* str::starts_with
starts_with(text, prefix) ==
    Len(text) >= Len(prefix) /\ SubSeq(text, 1, Len(prefix)) = prefix

\* The characters of the model in ASCII order, and after them U+FFFD, which
\* follows every ASCII character in UTF-8
AsciiOrder == <<" ", "#", "%", "-", ".", "/",
                "0","1","2","3","4","5","6","7","8","9",
                "A","B","C","D","E","F","G","H","I","J","K","L","M",
                "N","O","P","Q","R","S","T","U","V","W","X","Y","Z",
                "\\", "_",
                "a","b","c","d","e","f","g","h","i","j","k","l","m",
                "n","o","p","q","r","s","t","u","v","w","x","y","z",
                "U+FFFD">>
CharCode(c) == CHOOSE i \in 1..Len(AsciiOrder) : AsciiOrder[i] = c

\* str::cmp: the comparison of two texts by their characters, -1, 0 or 1
RECURSIVE str_cmp(_, _)
str_cmp(a, b) ==
    IF a = <<>> /\ b = <<>> THEN 0
    ELSE IF a = <<>> THEN -1
    ELSE IF b = <<>> THEN 1
    ELSE IF CharCode(Head(a)) < CharCode(Head(b)) THEN -1
    ELSE IF CharCode(Head(a)) > CharCode(Head(b)) THEN 1
    ELSE str_cmp(Tail(a), Tail(b))

\* str::parse::<f64>().is_ok(), on the characters the model types: digits
\* only (no sign, point or exponent character is in the typed alphabet)
parses_as_f64(s) == s # <<>> /\ \A i \in 1..Len(s) : s[i] \in Digits

----------------------------------------------------------------------------
(* domain/mod.rs *)

\* Result<Option<String>, String>
Ok(v) == [ok |-> TRUE, value |-> v, message |-> ""]
Err(m) == [ok |-> FALSE, value |-> None, message |-> m]

TrueWords == { <<"t","r","u","e">>, <<"t">>, <<"y","e","s">>, <<"y">>, <<"1">> }
FalseWords == { <<"f","a","l","s","e">>, <<"f">>, <<"n","o">>, <<"n">>, <<"0">> }

\* Option<bool>
parse_bool(input) ==
    LET w == to_lowercase(trim(input))
    IN  IF w \in TrueWords THEN Some(TRUE)
        ELSE IF w \in FalseWords THEN Some(FALSE)
        ELSE None

\* bool::to_string
bool_to_string(b) == IF b THEN <<"t","r","u","e">> ELSE <<"f","a","l","s","e">>

normalize_input(field, input) ==
    LET trimmed == trim(input)
        required == IF field.required = None THEN FALSE ELSE field.required[1]
    IN  IF trimmed = <<>> /\ field.default = None
        THEN IF required THEN Err("Value required") ELSE Ok(None)
        ELSE
          LET raw_value == IF trimmed = <<>> THEN field.default[1] ELSE trimmed
              kind == to_lowercase(field.kind)
          IN  IF /\ field.choices # None
                 /\ ~ \E i \in 1..Len(field.choices[1]) : field.choices[1][i] = raw_value
              THEN Err("Allowed values")
              ELSE IF kind = <<"s","t","r","i","n","g">> THEN Ok(Some(raw_value))
              ELSE IF kind = <<"n","u","m","b","e","r">>
                   THEN IF parses_as_f64(raw_value)
                        THEN Ok(Some(raw_value))
                        ELSE Err("Enter a valid number")
              ELSE IF kind \in { <<"b","o","o","l">>, <<"b","o","o","l","e","a","n">> }
                   THEN IF parse_bool(raw_value) # None
                        THEN Ok(Some(bool_to_string(parse_bool(raw_value)[1])))
                        ELSE Err("Enter true/false (or yes/no)")
              ELSE Ok(Some(raw_value))

----------------------------------------------------------------------------
(* The workspace on disk: the scripts under the root and what resolving    *)
(* each one's schema gives; the environments directory.                    *)

Root == <<"ws">>

Str_force  == <<"f","o","r","c","e">>
Str_Target == <<"T","a","r","g","e","t">>
Str_count  == <<"c","o","u","n","t">>
Str_bool   == <<"b","o","o","l">>
Str_string == <<"s","t","r","i","n","g">>
Str_Number == <<"N","u","m","b","e","r">>
Str_cleanup == <<"c","l","e","a","n","u","p">>
Str_deploy  == <<"d","e","p","l","o","y">>
Str_noargs  == <<"n","o","a","r","g","s">>

\* domain::Field
Field(name, kind, order, required, default, choices, arg) ==
    [name |-> name, kind |-> kind, order |-> order, required |-> required,
     default |-> default, choices |-> choices, arg |-> arg]

\* What FsWorkspaceRepository::read_schema returns for each script of the
\* workspace: Result<Schema, _>.  deploy.sh declares its fields out of order.
read_schema(script) ==
    CASE script = Root \o <<"cleanup.sh">> ->
           [ok |-> TRUE, message |-> "",
            schema |-> [name |-> Str_cleanup,
                        fields |-> << Field(Str_force, Str_bool, 1, Some(FALSE),
                                            None, None, None) >>]]
      [] script = Root \o <<"deploy.sh">> ->
           [ok |-> TRUE, message |-> "",
            schema |-> [name |-> Str_deploy,
                        fields |-> << Field(Str_Target, Str_string, 2, Some(TRUE),
                                            None, None, None),
                                      Field(Str_count, Str_Number, 1, None,
                                            Some(<<"7">>), None, Some(<<"-","c">>)) >>]]
      [] script = Root \o <<"noargs.sh">> ->
           [ok |-> TRUE, message |-> "",
            schema |-> [name |-> Str_noargs, fields |-> <<>>]]
      [] OTHER ->
           [ok |-> FALSE, message |-> "Schema mode failed",
            schema |-> [name |-> <<>>, fields |-> <<>>]]

\* ScriptService::list_entries(root): directories first, then by lowercased name
Entries ==
    << [path |-> Root \o <<"broken.sh">>,  kind |-> "Script"],
       [path |-> Root \o <<"cleanup.sh">>, kind |-> "Script"],
       [path |-> Root \o <<"deploy.sh">>,  kind |-> "Script"],
       [path |-> Root \o <<"noargs.sh">>,  kind |-> "Script"] >>

\* The files of the environments directory, each a sequence of lines.  A line
\* is a comment or blank line, or KEY=VALUE with the raw text of its value.
EnvLine(key, raw) == [comment |-> FALSE, key |-> key, raw |-> raw]
EnvComment == [comment |-> TRUE, key |-> <<>>, raw |-> <<>>]

\* the files of the environments directory: one with defaults, and the
\* auto-save file an editor left next to it
EnvFileNames == {"dev", "#dev#"}

\* the characters of a file name
NameText(name) ==
    CASE name = "dev"   -> <<"d","e","v">>
      [] name = "#dev#" -> <<"#","d","e","v","#">>
      [] name = "gone"  -> <<"g","o","n","e">>

\* set_active_env: format!("{}\n", name), what is written to the pointer file
pointer_text(name) == NameText(name) \o <<"\n">>

EnvFileLines(name) ==
    IF name = "dev"
    THEN << EnvComment,
            EnvLine(<<"F","O","R","C","E">>, <<"y","e","s">>),
            EnvLine(<<"t","a","r","g","e","t">>, <<"\"","Y","\"">>),
            EnvLine(<<"C","o","u","n","t">>, <<>>),
            EnvLine(Str_Target, <<"'","7","'">>) >>
    ELSE <<>>

\* What the pointer file may hold when the session starts: nothing, the name
\* of a file, or the name of a file that is gone.
ActiveChoices == { None, Some(pointer_text("dev")), Some(pointer_text("gone")) }

----------------------------------------------------------------------------
(* adapters/environments.rs *)

strip_quotes(value) ==
    LET trimmed == trim(value)
    IN  IF /\ Len(trimmed) >= 2
           /\ \/ trimmed[1] = "\"" /\ trimmed[Len(trimmed)] = "\""
              \/ trimmed[1] = "'" /\ trimmed[Len(trimmed)] = "'"
        THEN SubSeq(trimmed, 2, Len(trimmed) - 1)
        ELSE trimmed

\* HashMap<String, String>: the loop of load_env_defaults over the lines,
\* a later insert of a key replacing an earlier one
RECURSIVE load_env_defaults_from(_, _)
load_env_defaults_from(file_lines, defaults) ==
    IF file_lines = <<>> THEN defaults
    ELSE LET line == Head(file_lines)
             key == trim(line.key)
             value == trim(strip_quotes(trim(line.raw)))
         IN  IF line.comment \/ key = <<>> \/ value = <<>>
             THEN load_env_defaults_from(Tail(file_lines), defaults)
             ELSE load_env_defaults_from(Tail(file_lines),
                      (to_lowercase(key) :> value) @@ defaults)

load_env_defaults(name) == load_env_defaults_from(EnvFileLines(name), <<>>)

\* load_active_env_name: the loop over the lines of the pointer file
RECURSIVE first_name_line(_)
first_name_line(ls) ==
    IF ls = <<>> THEN None
    ELSE LET trimmed == trim(Head(ls))
         IN  IF \/ trimmed = <<>>
                \/ starts_with(trimmed, <<"#">>)
                \/ starts_with(trimmed, <<";">>)
             THEN first_name_line(Tail(ls))
             ELSE Some(trimmed)

\* load_active_env_name: the pointer file's first non-comment line, None
\* when there is no pointer file
load_active_env_name(pointer) ==
    IF pointer = None THEN None ELSE first_name_line(lines(pointer[1]))

\* envs_dir.join(name).is_file()
is_env_file(text) == \E name \in EnvFileNames : NameText(name) = text

\* Result<EnvironmentConfig, String>, as the Option the caller keeps
load_environment_config(pointer) ==
    LET active == load_active_env_name(pointer)
    IN  IF active = None
        THEN Some([active |-> None, defaults |-> <<>>])
        ELSE IF ~is_env_file(active[1])
             THEN None
             ELSE Some([active |-> active,
                        defaults |-> load_env_defaults(
                            CHOOSE name \in EnvFileNames : NameText(name) = active[1])])

\* list_env_files: the names of the regular files of the environments
\* directory other than the pointer file, sorted by name
RECURSIVE list_env_files(_)
list_env_files(files) ==
    IF files = {} THEN <<>>
    ELSE LET first == CHOOSE a \in files :
                          \A b \in files : str_cmp(NameText(a), NameText(b)) <= 0
         IN  <<first>> \o list_env_files(files \ {first})

\* load_env_config as it would be if it kept the cursor where it was
env_selected_kept(listing, config, old_selection) == old_selection

\* App::load_env_config: the cursor it sets for the new list
env_selected(listing, config, old_selection) ==
    IF listing = <<>> THEN 0
    ELSE IF config # None /\ config[1].active # None
    THEN IF \E i \in 1..Len(listing) : NameText(listing[i]) = config[1].active[1]
         THEN (CHOOSE i \in 1..Len(listing) :
                  /\ NameText(listing[i]) = config[1].active[1]
                  /\ \A j \in 1..(i - 1) : NameText(listing[j]) # config[1].active[1]) - 1
         ELSE 0
    ELSE IF old_selection <= Len(listing) - 1 THEN old_selection ELSE Len(listing) - 1

----------------------------------------------------------------------------
(* adapters/tui/app.rs: helpers *)

\* slice::sort_by_key(|field| field.order): a stable insertion sort
RECURSIVE insert_by_order(_, _)
insert_by_order(f, sorted) ==
    IF sorted = <<>> THEN <<f>>
    ELSE IF f.order < Head(sorted).order
         THEN <<f>> \o sorted
         ELSE <<Head(sorted)>> \o insert_by_order(f, Tail(sorted))

\* sort_by_key as it would be if it left the fields as the schema declares them
sort_by_order_as_declared(fs) == fs

RECURSIVE sort_by_order(_)
sort_by_order(fs) ==
    IF fs = <<>> THEN <<>>
    ELSE insert_by_order(fs[Len(fs)], sort_by_order(SubSeq(fs, 1, Len(fs) - 1)))

\* build_field_inputs as it would be if the field name were looked up as declared
build_field_inputs_case_sensitive(fs, config) ==
    IF config # None /\ DOMAIN config[1].defaults # {}
    THEN [i \in 1..Len(fs) |->
            IF fs[i].name \in DOMAIN config[1].defaults
            THEN config[1].defaults[fs[i].name]
            ELSE <<>>]
    ELSE [i \in 1..Len(fs) |-> <<>>]

build_field_inputs(fs, config) ==
    IF config # None /\ DOMAIN config[1].defaults # {}
    THEN [i \in 1..Len(fs) |->
            IF to_lowercase(fs[i].name) \in DOMAIN config[1].defaults
            THEN config[1].defaults[to_lowercase(fs[i].name)]
            ELSE <<>>]
    ELSE [i \in 1..Len(fs) |-> <<>>]

selected_entry(sel) == IF sel + 1 <= Len(Entries) THEN Some(Entries[sel + 1]) ELSE None

\* update_schema_preview: the new (preview_script, schema_cache)
update_schema_preview(sel, preview, cache) ==
    LET entry == selected_entry(sel)
    IN  IF entry = None \/ entry[1].kind # "Script"
        THEN [preview_script |-> None, schema_cache |-> cache]
        ELSE IF preview = Some(entry[1].path)
        THEN [preview_script |-> preview, schema_cache |-> cache]
        ELSE LET r == read_schema(entry[1].path)
             IN  IF r.ok
                 THEN [preview_script |-> Some(entry[1].path),
                       schema_cache |-> Some([path |-> entry[1].path,
                           schema |-> [r.schema EXCEPT
                               !.fields = sort_by_order(r.schema.fields)]])]
                 ELSE [preview_script |-> Some(entry[1].path), schema_cache |-> cache]

\* the flag submit_form pushes for a field
arg_of(field) ==
    IF field.arg # None THEN field.arg[1] ELSE <<"-","-">> \o field.name

\* submit_form as it would be if a failure did not end the loop: the last
\* failing field is the one reported
RECURSIVE submit_loop_reports_last(_, _, _, _)
submit_loop_reports_last(fs, inputs, idx, acc) ==
    IF idx > Len(fs) THEN [ok |-> TRUE, args |-> acc, idx |-> 0, message |-> ""]
    ELSE LET input == IF idx <= Len(inputs) THEN inputs[idx] ELSE <<>>
             r == normalize_input(fs[idx], input)
             rest == submit_loop_reports_last(fs, inputs, idx + 1,
                        IF r.ok /\ r.value # None
                        THEN acc \o <<arg_of(fs[idx]), r.value[1]>> ELSE acc)
         IN  IF r.ok \/ ~rest.ok THEN rest
             ELSE [ok |-> FALSE, args |-> <<>>, idx |-> idx - 1, message |-> r.message]

\* submit_form as it would be if an omitted field still pushed its flag
RECURSIVE submit_loop_keeps_omitted(_, _, _, _)
submit_loop_keeps_omitted(fs, inputs, idx, acc) ==
    IF idx > Len(fs) THEN [ok |-> TRUE, args |-> acc, idx |-> 0, message |-> ""]
    ELSE LET input == IF idx <= Len(inputs) THEN inputs[idx] ELSE <<>>
             r == normalize_input(fs[idx], input)
         IN  IF ~r.ok
             THEN [ok |-> FALSE, args |-> <<>>, idx |-> idx - 1, message |-> r.message]
             ELSE submit_loop_keeps_omitted(fs, inputs, idx + 1,
                      acc \o <<arg_of(fs[idx])>>
                          \o (IF r.value = None THEN <<>> ELSE <<r.value[1]>>))

\* the loop of submit_form from field idx on: Ok(args) when every field
\* normalizes, else the index (0-based) and message of the first failure
RECURSIVE submit_loop(_, _, _, _)
submit_loop(fs, inputs, idx, acc) ==
    IF idx > Len(fs) THEN [ok |-> TRUE, args |-> acc, idx |-> 0, message |-> ""]
    ELSE LET input == IF idx <= Len(inputs) THEN inputs[idx] ELSE <<>>
             r == normalize_input(fs[idx], input)
         IN  IF ~r.ok
             THEN [ok |-> FALSE, args |-> <<>>, idx |-> idx - 1, message |-> r.message]
             ELSE IF r.value = None
                  THEN submit_loop(fs, inputs, idx + 1, acc)
                  ELSE submit_loop(fs, inputs, idx + 1,
                                   acc \o <<arg_of(fs[idx]), r.value[1]>>)

\* history::script_path: the path relative to the workspace root
script_path(script) ==
    IF Len(script) >= Len(Root) /\ SubSeq(script, 1, Len(Root)) = Root
    THEN SubSeq(script, Len(Root) + 1, Len(script))
    ELSE script

----------------------------------------------------------------------------
(* history.rs *)

\* What the runner collaborator may return: an output, or a launch error
RunOutcomes ==
    { [launched |-> TRUE,  success |-> TRUE,  exit_code |-> Some(0), message |-> ""],
      [launched |-> TRUE,  success |-> FALSE, exit_code |-> Some(1), message |-> ""],
      [launched |-> FALSE, success |-> FALSE, exit_code |-> None,
       message |-> "launch failed"] }

success_entry(ts, script, as, output) ==
    [timestamp |-> ts, script |-> script_path(script), args |-> as,
     success |-> output.success, exit_code |-> output.exit_code, error |-> None]

error_entry(ts, script, as, message) ==
    [timestamp |-> ts, script |-> script_path(script), args |-> as,
     success |-> FALSE, exit_code |-> None, error |-> Some(message)]

\* a record an earlier session left in the history directory
OldEntry ==
    [timestamp |-> 0, script |-> <<"noargs.sh">>, args |-> <<>>,
     success |-> TRUE, exit_code |-> Some(0), error |-> None]

\* [String]::join
RECURSIVE join(_, _)
join(parts, sep) ==
    IF parts = <<>> THEN <<>>
    ELSE IF Len(parts) = 1 THEN parts[1]
    ELSE parts[1] \o sep \o join(Tail(parts), sep)

\* The text of one path component
ComponentText(name) ==
    CASE name = "broken.sh"  -> <<"b","r","o","k","e","n",".","s","h">>
      [] name = "cleanup.sh" -> <<"c","l","e","a","n","u","p",".","s","h">>
      [] name = "deploy.sh"  -> <<"d","e","p","l","o","y",".","s","h">>
      [] name = "noargs.sh"  -> <<"n","o","a","r","g","s",".","s","h">>
      [] OTHER               -> <<"o","l","d",".","s","h">>

\* Path::to_string_lossy of a relative path
to_string_lossy(path) ==
    join([i \in 1..Len(path) |-> ComponentText(path[i])], <<"/">>)

\* char::is_ascii_alphanumeric
is_ascii_alphanumeric(c) ==
    \/ \E i \in 1..26 : UpperChars[i] = c \/ LowerChars[i] = c
    \/ c \in Digits

\* safe_slug, its loop over the rest of the input
RECURSIVE slug_chars(_, _)
slug_chars(input, prev_underscore) ==
    IF input = <<>> THEN <<>>
    ELSE IF is_ascii_alphanumeric(Head(input))
    THEN <<to_ascii_lowercase_char(Head(input))>> \o slug_chars(Tail(input), FALSE)
    ELSE IF ~prev_underscore
    THEN <<"_">> \o slug_chars(Tail(input), TRUE)
    ELSE slug_chars(Tail(input), TRUE)

\* str::trim_matches(char)
RECURSIVE trim_matches(_, _)
trim_matches(s, c) ==
    IF s # <<>> /\ Head(s) = c THEN trim_matches(Tail(s), c)
    ELSE IF s # <<>> /\ s[Len(s)] = c THEN trim_matches(SubSeq(s, 1, Len(s) - 1), c)
    ELSE s

safe_slug(input) ==
    LET trimmed == trim_matches(slug_chars(input, FALSE), "_")
        slug == IF trimmed = <<>> THEN <<"r","u","n">> ELSE trimmed
    IN  IF Len(slug) > 64 THEN SubSeq(slug, 1, 64) ELSE slug

\* std::process::id() of this session, and of the session that wrote OldEntry
ProcessId == "session"
EarlierProcessId == "earlier"

\* history_file_name: "{timestamp}-{pid}-{slug}.json", by its parts
history_file_name(entry, pid) ==
    [timestamp |-> entry.timestamp, pid |-> pid,
     slug |-> safe_slug(to_string_lossy(entry.script)), ext |-> "json"]

\* serde_json: null, or a value
JsonNull == [json |-> "null"]
JsonValue(x) == [json |-> "value", v |-> x]

\* serde_json::to_vec_pretty(entry): None is null, the path is its text
to_vec_pretty(entry) ==
    [timestamp |-> entry.timestamp,
     script    |-> to_string_lossy(entry.script),
     args      |-> entry.args,
     success   |-> entry.success,
     exit_code |-> IF entry.exit_code = None THEN JsonNull ELSE JsonValue(entry.exit_code[1]),
     error     |-> IF entry.error = None THEN JsonNull ELSE JsonValue(entry.error[1])]

\* the names of the files of the workspace
KnownNames == {"broken.sh", "cleanup.sh", "deploy.sh", "noargs.sh", "old.sh"}

\* PathBuf::from(String): the components between the separators
RECURSIVE path_from_text(_)
path_from_text(text) ==
    IF text = <<>> THEN <<>>
    ELSE LET n == IF \E i \in 1..Len(text) : text[i] = "/"
                  THEN CHOOSE i \in 1..Len(text) :
                         text[i] = "/" /\ \A j \in 1..(i - 1) : text[j] # "/"
                  ELSE Len(text) + 1
             first == SubSeq(text, 1, n - 1)
         IN  << CHOOSE name \in KnownNames : ComponentText(name) = first >>
             \o path_from_text(SubSeq(text, n + 1, Len(text)))

\* serde_json::from_slice::<HistoryEntry>, of a document that parses; an
\* Option field that is absent or null is None
from_slice(data) ==
    LET option(field) ==
            IF field \notin DOMAIN data \/ data[field] = JsonNull
            THEN None ELSE Some(data[field].v)
    IN  [timestamp |-> data.timestamp,
         script    |-> path_from_text(data.script),
         args      |-> data.args,
         success   |-> data.success,
         exit_code |-> option("exit_code"),
         error     |-> option("error")]

\* record_entry: fs::write(path, data) creates the file or replaces its
\* content; when it fails the directory is as before and Err is returned
record_entry(dir, entry, pid, writable) ==
    LET file_name == history_file_name(entry, pid)
    IN  IF writable
        THEN { f \in dir : f.name # file_name }
               \cup { [name |-> file_name, data |-> to_vec_pretty(entry),
                       is_file |-> TRUE, readable |-> TRUE] }
        ELSE dir

\* load_entries: entries.sort_by(|a, b| b.timestamp.cmp(&a.timestamp)), a
\* stable sort
RECURSIVE sort_by_timestamp(_)
sort_by_timestamp(es) ==
    IF es = <<>> THEN <<>>
    ELSE LET sorted == sort_by_timestamp(SubSeq(es, 1, Len(es) - 1))
             e == es[Len(es)]
             n == Cardinality({ i \in 1..Len(sorted) : sorted[i].timestamp >= e.timestamp })
         IN  SubSeq(sorted, 1, n) \o <<e>> \o SubSeq(sorted, n + 1, Len(sorted))

\* serde_json::from_slice::<HistoryEntry>: Ok when the data is a JSON object
\* with every field of HistoryEntry that is no Option
parses(data) ==
    {"timestamp", "script", "args", "success"} \subseteq DOMAIN data

\* load_entries as it would be if it looked at the content of a file only
skips_by_content(f) == ~parses(f.data)

\* load_entries: the directory entries its loop passes over with `continue`
skips(f) ==
    \/ ~f.is_file
    \/ f.name.ext # "json"
    \/ ~f.readable
    \/ ~parses(f.data)

\* load_entries: the directory entries that reach entries.push, in the order
\* of the listing
RECURSIVE kept_files(_)
kept_files(listing) ==
    IF listing = <<>> THEN <<>>
    ELSE (IF skips(Head(listing)) THEN <<>> ELSE <<Head(listing)>>)
         \o kept_files(Tail(listing))

\* load_entries, for the files in the order read_dir yields them
load_entries(listing) ==
    LET files == kept_files(listing)
    IN  sort_by_timestamp([i \in 1..Len(files) |-> from_slice(files[i].data)])

\* fs::read_dir: the files of the directory, in any order
RECURSIVE read_dir(_)
read_dir(dir) ==
    IF dir = {} THEN { <<>> }
    ELSE UNION { { <<f>> \o rest : rest \in read_dir(dir \ {f}) } : f \in dir }

\* the history directory that holds the entries an earlier session recorded
RECURSIVE StoredHistory(_)
StoredHistory(h) ==
    IF h = <<>> THEN {}
    ELSE record_entry(StoredHistory(Tail(h)), Head(h), EarlierProcessId, TRUE)

----------------------------------------------------------------------------
(* The session: App::new, the key handlers of events.rs and the loop of    *)
(* run_app.                                                                *)

formVars == <<fields, field_index, field_inputs, args, error, selected_script, result>>
navVars  == <<selection, preview_script, schema_cache>>
histVars == <<history, history_selection, history_focus, history_dir>>
searchVars == <<search_query, search_results, search_selection, search_details,
                search_status, search_error, pending>>
indexVars == <<status, worker, txn, db>>
widgetVars == <<current_dir, entries, widget, widget_error, widget_loading,
                widget_receiver, loads>>
procVars == <<processes, reloaded, history_writable, call, returned, resolutions,
                   env_entries, env_selection>>
otherVars == <<activeFile, runs, searchVars, indexVars, widgetVars, procVars>>
vars == <<screen, selection, preview_script, schema_cache, fields, field_index,
          field_inputs, args, error, selected_script, result, should_quit,
          history, history_selection, history_focus, env_config, running, now,
          runs, activeFile, search_query, search_results, search_selection,
          search_details, search_status, search_error, pending, status, worker,
          txn, db, current_dir, entries, widget, widget_error, widget_loading,
          widget_receiver, loads, processes, history_dir, reloaded,
          history_writable, call, returned, resolutions,
                   env_entries, env_selection>>

\* the characters the user types into a field
TypedChars == {"Y", "7", " "}

\* run_app reads a key only at the top of its loop: not after a quit, and
\* not while an execution request waits to be taken or the runner runs
KeyReady == ~should_quit /\ result = None /\ running = None

\* read_schema: command_for_script(script).env("SCHEMA_MODE", "1").output()
\* runs the script as a child process and waits for its exit
SchemaProcess(script, thread) ==
    [script |-> script, mode |-> "schema", thread |-> thread]

\* MultiScriptRunner::run: command_for_script(script).args(args).output()
RunProcess(script) ==
    [script |-> script, mode |-> "run", thread |-> "session"]

\* update_schema_preview: the child processes it launches, none when the
\* selected entry is no script or is the one previewed already
preview_processes(list, sel, preview) ==
    IF sel + 1 <= Len(list) /\ list[sel + 1].kind = "Script"
          /\ preview # Some(list[sel + 1].path)
    THEN { SchemaProcess(list[sel + 1].path, "session") }
    ELSE {}

\* App::new and SearchIndex::new, for the current_dir and entries given to
\* it; its last statements start the first status-panel load
AppNew ==
    /\ screen = "ScriptSelect"
    /\ selection = 0
    /\ preview_script = update_schema_preview(0, None, None).preview_script
    /\ schema_cache = update_schema_preview(0, None, None).schema_cache
    /\ fields = <<>>
    /\ field_index = 0
    /\ field_inputs = <<>>
    /\ args = <<>>
    /\ error = None
    /\ selected_script = None
    /\ result = None
    /\ should_quit = FALSE
    /\ history_selection = 0
    /\ history_focus = "List"
    /\ env_config = load_environment_config(activeFile)
    /\ running = None
    /\ now = 1
    /\ runs = 0
    /\ search_query = <<>>
    /\ search_results = <<>>
    /\ search_selection = 0
    /\ search_details = None
    /\ search_error = None
    /\ pending = None
    /\ status = [value |-> [tag |-> "Idle"], poisoned |-> FALSE]
    /\ search_status = status.value
    /\ worker = "unspawned"
    /\ txn = None
    /\ widget = None
    /\ widget_error = None
    /\ widget_loading = TRUE
    /\ widget_receiver = Some(1)
    /\ loads = << [dir |-> current_dir, phase |-> "running"] >>
    /\ processes = preview_processes(entries, 0, None)
    /\ reloaded = None
    /\ env_entries = list_env_files(EnvFileNames)
    /\ env_selection = env_selected(env_entries, env_config, 0)

\* A session over a workspace with or without an earlier run in its history
\* and with any content of the pointer file; the search store is new
SessionInit ==
    /\ history \in { <<>>, <<OldEntry>> }
    /\ history_dir = StoredHistory(history)
    /\ history_writable = TRUE
    /\ call = None
    /\ returned = None
    /\ resolutions = 0
    /\ activeFile \in ActiveChoices
    /\ current_dir = Root
    /\ entries = Entries
    /\ AppNew
    /\ db = [script_index |-> {}, script_fields |-> {}]

\* App::move_selection
MoveSelection(delta) ==
    /\ KeyReady /\ screen = "ScriptSelect"
    /\ Entries # <<>>
    /\ LET new_index == IF selection + delta < 0 THEN 0
                        ELSE IF selection + delta >= Len(Entries) THEN Len(Entries) - 1
                        ELSE selection + delta
           p == update_schema_preview(new_index, preview_script, schema_cache)
       IN  /\ selection' = new_index
           /\ preview_script' = p.preview_script
           /\ schema_cache' = p.schema_cache
    /\ UNCHANGED <<screen, formVars, should_quit, histVars, env_config, running, now,
                   otherVars>>

\* load_schema as it would be if every schema opened the form
starts_execution_never(fs) == FALSE

\* App::load_schema: a schema without fields goes straight to execution
starts_execution(fs) == fs = <<>>

\* load_schema as it would be if it took whatever schema is cached
cache_hit_any(cache, script) == cache # None

\* App::load_schema: Some((path, schema)) if path == &script
cache_hit(cache, script) == cache # None /\ cache[1].path = script

\* App::load_schema
LoadSchema(script) ==
    LET schema_result ==
            IF cache_hit(schema_cache, script)
            THEN [ok |-> TRUE, message |-> "", schema |-> schema_cache[1].schema]
            ELSE read_schema(script)
        sorted == sort_by_order(schema_result.schema.fields)
        config == load_environment_config(activeFile)
    IN  IF schema_result.ok
        THEN /\ env_config' = config
             /\ fields' = sorted
             /\ field_index' = 0
             /\ field_inputs' = build_field_inputs(sorted, config)
             /\ args' = <<>>
             /\ error' = None
             /\ selected_script' = Some(script)
             /\ schema_cache' = Some([path |-> script,
                    schema |-> [schema_result.schema EXCEPT !.fields = sorted]])
             /\ IF starts_execution(sorted)
                THEN /\ result' = Some([script |-> script, args |-> <<>>])
                     /\ UNCHANGED screen
                ELSE /\ screen' = "FieldInput"
                     /\ UNCHANGED result
        ELSE /\ error' = Some([field |-> <<>>, message |-> schema_result.message])
             /\ screen' = "Error"
             /\ UNCHANGED <<env_config, fields, field_index, field_inputs, args,
                            selected_script, schema_cache, result>>

\* App::enter_selected (Enter on the script list)
EnterSelected ==
    /\ KeyReady /\ screen = "ScriptSelect"
    /\ runs < MaxRuns
    /\ selected_entry(selection) # None
    /\ selected_entry(selection)[1].kind = "Script"
    /\ LoadSchema(selected_entry(selection)[1].path)
    /\ UNCHANGED <<selection, preview_script, should_quit, histVars, running, now,
                   otherVars>>

\* App::move_field_selection
MoveFieldSelection(delta) ==
    /\ KeyReady /\ screen = "FieldInput"
    /\ fields # <<>>
    /\ field_index' = (field_index + delta) % Len(fields)
    /\ error' = None
    /\ UNCHANGED <<screen, navVars, fields, field_inputs, args, selected_script, result,
                   should_quit, histVars, env_config, running, now, otherVars>>

TotalChars(inputs) ==
    LET RECURSIVE Sum(_)
        Sum(i) == IF i = 0 THEN 0 ELSE Len(inputs[i]) + Sum(i - 1)
    IN  Sum(Len(inputs))

\* App::append_field_char
AppendFieldChar(ch) ==
    /\ KeyReady /\ screen = "FieldInput"
    /\ field_index + 1 <= Len(field_inputs)
    /\ TotalChars(field_inputs) < MaxChars
    /\ field_inputs' = [field_inputs EXCEPT ![field_index + 1] = Append(@, ch)]
    /\ error' = None
    /\ UNCHANGED <<screen, navVars, fields, field_index, args, selected_script, result,
                   should_quit, histVars, env_config, running, now, otherVars>>

\* App::pop_field_char
PopFieldChar ==
    /\ KeyReady /\ screen = "FieldInput"
    /\ field_index + 1 <= Len(field_inputs)
    /\ field_inputs' = [field_inputs EXCEPT ![field_index + 1] =
                            IF @ = <<>> THEN @ ELSE SubSeq(@, 1, Len(@) - 1)]
    /\ error' = None
    /\ UNCHANGED <<screen, navVars, fields, field_index, args, selected_script, result,
                   should_quit, histVars, env_config, running, now, otherVars>>

\* App::finish
Finish(new_args) ==
    IF selected_script # None
    THEN /\ result' = Some([script |-> selected_script[1], args |-> new_args])
         /\ UNCHANGED should_quit
    ELSE /\ should_quit' = TRUE
         /\ UNCHANGED result

\* App::submit_form (Enter on the form)
SubmitForm ==
    /\ KeyReady /\ screen = "FieldInput"
    /\ IF fields = <<>>
       THEN /\ Finish(args)
            /\ UNCHANGED <<args, error, field_index>>
       ELSE LET r == submit_loop(fields, field_inputs, 1, <<>>)
            IN  IF r.ok
                THEN /\ args' = r.args
                     /\ error' = None
                     /\ Finish(r.args)
                     /\ UNCHANGED field_index
                ELSE /\ error' = Some([field |-> fields[r.idx + 1].name,
                                       message |-> r.message])
                     /\ field_index' = r.idx
                     /\ UNCHANGED <<args, result, should_quit>>
    /\ UNCHANGED <<screen, navVars, fields, field_inputs, selected_script, histVars,
                   env_config, running, now, otherVars>>

\* App::back_to_script_select, but for the screen it sets
ResetForm ==
    /\ fields' = <<>>
    /\ field_index' = 0
    /\ field_inputs' = <<>>
    /\ args' = <<>>
    /\ error' = None
    /\ selected_script' = None
    /\ result' = None

\* App::back_to_script_select
BackToScriptSelect ==
    /\ screen' = "ScriptSelect"
    /\ ResetForm

\* Esc or Ctrl-B on the form
LeaveForm ==
    /\ KeyReady /\ screen = "FieldInput"
    /\ BackToScriptSelect
    /\ UNCHANGED <<navVars, should_quit, histVars, env_config, running, now, otherVars>>

\* q on the script list (and Esc at the workspace root), q or Esc on the
\* error screen
QuitKey ==
    /\ KeyReady /\ screen \in {"ScriptSelect", "Error"}
    /\ should_quit' = TRUE
    /\ UNCHANGED <<screen, navVars, formVars, histVars, env_config, running, now,
                   otherVars>>

\* handle_error_key: Enter
DismissError ==
    /\ KeyReady /\ screen = "Error"
    /\ error' = None
    /\ screen' = "ScriptSelect"
    /\ UNCHANGED <<navVars, fields, field_index, field_inputs, args, selected_script,
                   result, should_quit, histVars, env_config, running, now, otherVars>>

\* h on the script list and on the run result
OpenHistory ==
    /\ KeyReady /\ screen \in {"ScriptSelect", "RunResult"}
    /\ screen' = "History"
    /\ history_focus' = "List"
    /\ UNCHANGED <<navVars, formVars, should_quit, history, history_selection,
                   history_dir, env_config, running, now, otherVars>>

\* App::move_history_selection (history list focused)
MoveHistorySelection(delta) ==
    /\ KeyReady /\ screen = "History" /\ history_focus = "List"
    /\ history # <<>>
    /\ history_selection' =
           IF history_selection + delta < 0 THEN 0
           ELSE IF history_selection + delta >= Len(history) THEN Len(history) - 1
           ELSE history_selection + delta
    /\ UNCHANGED <<screen, navVars, formVars, should_quit, history, history_focus,
                   history_dir, env_config, running, now, otherVars>>

\* handle_history_key: Enter/Right focuses the output, Esc/Left the list
ToggleHistoryFocus ==
    /\ KeyReady /\ screen = "History"
    /\ history_focus' = IF history_focus = "List" THEN "Output" ELSE "List"
    /\ UNCHANGED <<screen, navVars, formVars, should_quit, history, history_selection,
                   history_dir, env_config, running, now, otherVars>>

\* q (or Esc on the list) on the history screen; q, Esc or Enter on the run result
BackToList ==
    /\ KeyReady /\ screen \in {"History", "RunResult"}
    /\ screen' = "ScriptSelect"
    /\ UNCHANGED <<navVars, formVars, should_quit, histVars, env_config, running, now,
                   otherVars>>

\* run_app: app.result.take(), the Running screen is drawn, the runner is called
StartRun ==
    /\ ~should_quit
    /\ result # None
    /\ running' = result
    /\ result' = None
    /\ screen' = "Running"
    /\ runs' = runs + 1
    /\ UNCHANGED <<navVars, fields, field_index, field_inputs, args, error,
                   selected_script, should_quit, histVars, env_config, now, activeFile,
                   searchVars, indexVars, widgetVars, procVars>>

\* add_history_entry as it would be if it pushed at the end
add_history_entry_at_end(h, entry) == h \o <<entry>>

\* App::add_history_entry: the new history
add_history_entry(h, entry) == <<entry>> \o h

\* run_app as it would be if a failed record_entry kept the entry out of
\* the list
recorded_entry_added_if_written(h, entry, written) ==
    IF written THEN add_history_entry(h, entry) ELSE h

\* run_app: let _ = history::record_entry(..); app.add_history_entry(entry):
\* the result of record_entry is dropped and the entry added
recorded_entry_added(h, entry, written) == add_history_entry(h, entry)

\* run_app: the runner returns after `elapsed` ms; the entry is built, added,
\* and the result screen shown
RunnerReturns(outcome, elapsed) ==
    /\ running # None
    /\ now' = now + elapsed
    /\ LET entry == IF outcome.launched
                    THEN success_entry(now', running[1].script, running[1].args, outcome)
                    ELSE error_entry(now', running[1].script, running[1].args,
                                     outcome.message)
       IN  /\ history_dir' = record_entry(history_dir, entry, ProcessId, history_writable)
           /\ history' = recorded_entry_added(history, entry, history_writable)
    /\ history_selection' = 0
    /\ ResetForm
    /\ screen' = "RunResult"
    /\ running' = None
    /\ UNCHANGED <<navVars, should_quit, history_focus, env_config, otherVars>>

SessionNext ==
    \/ \E delta \in {-1, 1} : MoveSelection(delta)
    \/ EnterSelected
    \/ \E delta \in {-1, 1} : MoveFieldSelection(delta)
    \/ \E ch \in TypedChars : AppendFieldChar(ch)
    \/ PopFieldChar
    \/ SubmitForm
    \/ LeaveForm
    \/ QuitKey
    \/ DismissError
    \/ OpenHistory
    \/ \E delta \in {-1, 1} : MoveHistorySelection(delta)
    \/ ToggleHistoryFocus
    \/ BackToList
    \/ StartRun
    \/ \E outcome \in RunOutcomes, elapsed \in {0, 1} : RunnerReturns(outcome, elapsed)

Spec == SessionInit /\ [][SessionNext]_vars

----------------------------------------------------------------------------
(* Properties of the form (claims C1 to C6) *)

Fails(i) == ~ normalize_input(fields[i], field_inputs[i]).ok
Value(i) == normalize_input(fields[i], field_inputs[i]).value
AnyFails == \E i \in 1..Len(fields) : Fails(i)
FirstFailing == CHOOSE i \in 1..Len(fields) : Fails(i) /\ \A j \in 1..(i - 1) : ~Fails(j)
SortedByOrder(fs) == \A i, j \in 1..Len(fs) : i < j => fs[i].order <= fs[j].order

\* the fields that contribute tokens, and where the tokens of field i start
Kept == { i \in 1..Len(fields) : Value(i) # None }
TokenAt(i) == 2 * Cardinality({ j \in Kept : j < i }) + 1

\* C1: a submission in which some field fails validation is aborted: the
\* fields are in ascending Order, field_index becomes the index of the first
\* failing field, an error naming it is set, the screen stays FieldInput and
\* no execution request is produced.
C1_FirstFailureAborts ==
    [][ (SubmitForm /\ fields # <<>> /\ AnyFails) =>
            /\ SortedByOrder(fields)
            /\ field_index' = FirstFailing - 1
            /\ error' # None
            /\ error'[1].field = fields[FirstFailing].name
            /\ error'[1].message = normalize_input(fields[FirstFailing],
                                                   field_inputs[FirstFailing]).message
            /\ screen' = "FieldInput"
            /\ result' = None
            /\ ~should_quit'
            /\ UNCHANGED <<fields, field_inputs, args>> ]_vars

\* a submission has just failed on the first of two failing fields
C1_Witness ==
    /\ screen = "FieldInput" /\ error # None
    /\ Len(fields) = 2 /\ Fails(1) /\ Fails(2)
    /\ field_index = 0
    /\ error[1].field = Str_count

\* C2: a successful submission yields, for each field whose normalized value
\* is not "omit", exactly the two consecutive tokens (flag, value), the fields
\* in ascending Order, and nothing for an omitted field; a single optional
\* bool field gives ["--force","true"] for "yes" and [] for the empty input.
C2_ArgumentList ==
    [][ (SubmitForm /\ fields # <<>> /\ ~AnyFails) =>
            /\ SortedByOrder(fields)
            /\ result' # None
            /\ result'[1].script = selected_script[1]
            /\ result'[1].args = args'
            /\ Len(args') = 2 * Cardinality(Kept)
            /\ \A i \in Kept :
                 /\ args'[TokenAt(i)] =
                        IF fields[i].arg # None THEN fields[i].arg[1]
                        ELSE <<"-","-">> \o fields[i].name
                 /\ args'[TokenAt(i) + 1] = Value(i)[1]
            /\ (selected_script[1] = Root \o <<"cleanup.sh">> =>
                  /\ field_inputs = << <<"y","e","s">> >> =>
                         args' = << <<"-","-","f","o","r","c","e">>, <<"t","r","u","e">> >>
                  /\ field_inputs = << <<>> >> => args' = <<>>) ]_vars

\* a request built from both fields of deploy.sh: count first (Order 1, its
\* default), then Target (Order 2, typed)
C2_Witness ==
    /\ result # None
    /\ screen = "FieldInput"
    /\ result[1].script = Root \o <<"deploy.sh">>
    /\ field_inputs = << <<>>, <<"Y">> >>
    /\ result[1].args = << <<"-","c">>, <<"7">>, <<"-","-">> \o Str_Target, <<"Y">> >>

\* C3 (as claimed): the flag of a field that declares no Arg is "--" followed
\* by the lowercased field name, whatever the case of the declared name.
C3_DefaultFlagLowercased ==
    (result # None /\ screen = "FieldInput") =>
        \A i \in Kept :
            fields[i].arg = None =>
                result[1].args[TokenAt(i)] = <<"-","-">> \o to_lowercase(fields[i].name)

\* C4: every execution request leads to the Running screen, and when the
\* runner returns (an output or a launch error) the entry built for that run
\* is put at index 0 of the history, above the entries already there, the
\* history selection is on it, and the screen is RunResult.
C4_RunRecorded ==
    [][ /\ result # None => (screen' = "Running" /\ running' = result)
        /\ running # None =>
             /\ screen = "Running"
             /\ screen' = "RunResult"
             /\ history' # <<>>
             /\ Tail(history') = history
             /\ history'[1].script = script_path(running[1].script)
             /\ history'[1].args = running[1].args
             /\ history'[1].timestamp = now'
             /\ (history'[1].error = None) = (history'[1].exit_code # None)
             /\ history_selection' = 0 ]_vars

\* a run that found an older entry in the history has been recorded above it
C4_Witness ==
    /\ screen = "RunResult"
    /\ Len(history) = 2
    /\ history[2] = OldEntry
    /\ history[1].script = <<"deploy.sh">>
    /\ history[1].error # None
    /\ history_selection = 0

\* the script's schema resolves, and with these many fields
Resolves(script) == read_schema(script).ok
FieldCount(script) == Len(read_schema(script).schema.fields)

\* C5: selecting a script whose schema resolves with zero fields produces an
\* execution request with no arguments and never shows FieldInput; selecting
\* one with fields enters FieldInput and produces no request, and a request
\* exists on the form only after a submission in which every field validated.
C5_ZeroFieldsRunDirectly ==
    [][ /\ (selected_script = None /\ selected_script' # None) =>
             /\ Resolves(selected_script'[1])
             /\ IF FieldCount(selected_script'[1]) = 0
                THEN /\ result' = Some([script |-> selected_script'[1], args |-> <<>>])
                     /\ screen' = screen /\ screen' # "FieldInput"
                ELSE /\ screen' = "FieldInput"
                     /\ result' = None
                     /\ Len(fields') = FieldCount(selected_script'[1])
        /\ (result = None /\ result' # None /\ screen = "FieldInput") =>
             (SubmitForm /\ ~AnyFails)
        /\ (result' # None /\ FieldCount(result'[1].script) = 0) =>
             (screen' # "FieldInput" /\ result'[1].args = <<>>)
        /\ (screen' = "Running" /\ screen # "Running"
              /\ FieldCount(running'[1].script) = 0) => screen # "FieldInput" ]_vars

\* a zero-field script was selected from the list: its request waits
C5_Witness ==
    /\ result = Some([script |-> Root \o <<"noargs.sh">>, args |-> <<>>])
    /\ screen = "ScriptSelect"

\* the value the environment that the pointer file names gives for a key:
\* that of the last line of the file with this key (in any case) and a
\* non-empty value
EnvGives(pointer, key) ==
    IF pointer = None \/ ~ \E name \in EnvFileNames : pointer = Some(pointer_text(name))
    THEN <<>>
    ELSE LET file_lines == EnvFileLines(CHOOSE name \in EnvFileNames :
                                      pointer = Some(pointer_text(name)))
             val(j) == trim(strip_quotes(file_lines[j].raw))
             M == { j \in 1..Len(file_lines) :
                      /\ ~file_lines[j].comment
                      /\ to_lowercase(trim(file_lines[j].key)) = key
                      /\ val(j) # <<>> }
         IN  IF M = {} THEN <<>>
             ELSE val(CHOOSE j \in M : \A k \in M : k <= j)

\* C6: on entering FieldInput every field's buffer holds what the active
\* environment, as persisted at that moment, gives for the field's lowercased
\* name, and is empty when no environment is active or it has no such key.
C6_InputsSeededFromEnvironment ==
    [][ (screen # "FieldInput" /\ screen' = "FieldInput") =>
            /\ Len(field_inputs') = Len(fields')
            /\ \A i \in 1..Len(fields') :
                 field_inputs'[i] = EnvGives(activeFile', to_lowercase(fields'[i].name)) ]_vars

\* the form of deploy.sh opened under the "dev" environment: Target is
\* seeded from the key written "Target", count has only an empty value
C6_Witness ==
    /\ screen = "FieldInput"
    /\ activeFile = Some(pointer_text("dev"))
    /\ selected_script = Some(Root \o <<"deploy.sh">>)
    /\ field_inputs = << <<>>, <<"7">> >>
    /\ error = None

----------------------------------------------------------------------------
(* search_index.rs: text, and the tables of the search store *)

\* COLLATE NOCASE: the comparison of two TEXT values, -1, 0 or 1
RECURSIVE nocase_cmp(_, _)
nocase_cmp(a, b) ==
    IF a = <<>> /\ b = <<>> THEN 0
    ELSE IF a = <<>> THEN -1
    ELSE IF b = <<>> THEN 1
    ELSE LET x == CharCode(to_ascii_lowercase_char(Head(a)))
             y == CharCode(to_ascii_lowercase_char(Head(b)))
         IN  IF x < y THEN -1
             ELSE IF x > y THEN 1
             ELSE nocase_cmp(Tail(a), Tail(b))

\* build_search_blob; no schema of the workspace has a description, tags or
\* a prompt
RECURSIVE field_parts(_)
field_parts(fs) ==
    IF fs = <<>> THEN <<>>
    ELSE <<Head(fs).name, Head(fs).kind>> \o field_parts(Tail(fs))

build_search_blob(script_path_text, display_name, fs) ==
    to_lowercase(join(<<script_path_text, display_name>> \o field_parts(fs), <<" ">>))

\* str::split_whitespace
RECURSIVE split_whitespace(_)
split_whitespace(s) ==
    LET t == trim_start(s)
    IN  IF t = <<>> THEN <<>>
        ELSE LET n == IF \E i \in 1..Len(t) : IsWhitespace(t[i])
                      THEN CHOOSE i \in 1..Len(t) :
                             IsWhitespace(t[i]) /\ \A j \in 1..(i - 1) : ~IsWhitespace(t[j])
                      ELSE Len(t) + 1
             IN  <<SubSeq(t, 1, n - 1)>> \o split_whitespace(SubSeq(t, n, Len(t)))

split_query(q) ==
    LET tokens == split_whitespace(q)
    IN  [i \in 1..Len(tokens) |-> to_lowercase(tokens[i])]

\* str::replace(char, &str)
RECURSIVE replace(_, _, _)
replace(s, c, r) ==
    IF s = <<>> THEN <<>>
    ELSE (IF Head(s) = c THEN r ELSE <<Head(s)>>) \o replace(Tail(s), c, r)

\* escape_like as it would be if it left the pattern characters alone
escape_like_nothing(input) == input

escape_like(input) ==
    replace(replace(replace(input, "\\", <<"\\", "\\">>), "%", <<"\\", "%">>),
            "_", <<"\\", "_">>)

\* SQLite's  text LIKE pattern ESCAPE '\'
RECURSIVE like(_, _)
like(pattern, text) ==
    IF pattern = <<>> THEN text = <<>>
    ELSE IF Head(pattern) = "\\" /\ Len(pattern) >= 2
    THEN /\ text # <<>>
         /\ to_ascii_lowercase_char(Head(text)) = to_ascii_lowercase_char(pattern[2])
         /\ like(SubSeq(pattern, 3, Len(pattern)), Tail(text))
    ELSE IF Head(pattern) = "%"
    THEN \/ like(Tail(pattern), text)
         \/ text # <<>> /\ like(pattern, Tail(text))
    ELSE IF Head(pattern) = "_"
    THEN text # <<>> /\ like(Tail(pattern), Tail(text))
    ELSE /\ text # <<>>
         /\ to_ascii_lowercase_char(Head(text)) = to_ascii_lowercase_char(Head(pattern))
         /\ like(Tail(pattern), Tail(text))

\* init_db: the two tables, empty
EmptyTables == [script_index |-> {}, script_fields |-> {}]

\* rebuild_index, the body of its loop for one script: the row of
\* script_index and the rows of script_fields it inserts
index_script(tables, script_path_text, file_name, schema_result) ==
    LET display_name == IF schema_result.ok THEN schema_result.schema.name ELSE file_name
        fs == IF schema_result.ok THEN schema_result.schema.fields ELSE <<>>
        row == [script_path |-> script_path_text,
                display_name |-> display_name,
                search_blob |-> build_search_blob(script_path_text, display_name, fs),
                schema_error |-> IF schema_result.ok THEN None
                                 ELSE Some(schema_result.message)]
        field_rows == { [script_path |-> script_path_text,
                         field_order |-> i - 1,
                         name |-> fs[i].name,
                         kind |-> fs[i].kind,
                         required |-> (fs[i].required = Some(TRUE))] : i \in 1..Len(fs) }
    IN  [script_index |->
             { r \in tables.script_index : r.script_path # script_path_text } \cup {row},
         script_fields |-> tables.script_fields \cup field_rows]

\* FsWorkspaceRepository::list_scripts_recursive(root)
list_scripts_recursive == [i \in 1..Len(Entries) |-> Entries[i].path]

\* rebuild_index: the tables of the open transaction after one more script
insert_script(tables, script) ==
    index_script(tables, to_string_lossy(script_path(script)),
                 ComponentText(script[Len(script)]), read_schema(script))

\* The store as an earlier session left it: cleanup.sh as it is today,
\* deploy.sh from the time its schema did not resolve, and old.sh, a script
\* that has been deleted since
StoredTables ==
    LET failed == [ok |-> FALSE, message |-> "Schema mode failed",
                   schema |-> [name |-> <<>>, fields |-> <<>>]]
        t1 == insert_script(EmptyTables, Root \o <<"cleanup.sh">>)
        t2 == index_script(t1, ComponentText("deploy.sh"), ComponentText("deploy.sh"), failed)
    IN  index_script(t2, ComponentText("old.sh"), ComponentText("old.sh"), failed)

\* the ORDER BY of query as it would be with the path first
row_le_path_first(r, o) ==
    \/ nocase_cmp(r.script_path, o.script_path) < 0
    \/ /\ nocase_cmp(r.script_path, o.script_path) = 0
       /\ nocase_cmp(r.display_name, o.display_name) <= 0

\* ORDER BY display_name COLLATE NOCASE, script_path COLLATE NOCASE
row_le(r, o) ==
    \/ nocase_cmp(r.display_name, o.display_name) < 0
    \/ /\ nocase_cmp(r.display_name, o.display_name) = 0
       /\ nocase_cmp(r.script_path, o.script_path) <= 0

RECURSIVE order_rows(_)
order_rows(rows) ==
    IF rows = {} THEN <<>>
    ELSE LET first == CHOOSE r \in rows : \A o \in rows : row_le(r, o)
         IN  <<first>> \o order_rows(rows \ {first})

\* SearchIndex::query, one SELECT on the committed tables
query(tables, text) ==
    LET tokens == split_query(text)
        hits == { r \in tables.script_index :
                    \A i \in 1..Len(tokens) :
                      like(<<"%">> \o escape_like(tokens[i]) \o <<"%">>, r.search_blob) }
        rows == order_rows(hits)
    IN  [i \in 1..Len(rows) |-> [script_path |-> rows[i].script_path,
                                 display_name |-> rows[i].display_name,
                                 schema_error |-> rows[i].schema_error]]

\* SearchIndex::load_details, its first SELECT: Option<row of script_index>
select_base(tables, script_path_text) ==
    IF \E r \in tables.script_index : r.script_path = script_path_text
    THEN Some(CHOOSE r \in tables.script_index : r.script_path = script_path_text)
    ELSE None

\* SearchIndex::load_details, its second SELECT: the field rows of the
\* script, ORDER BY field_order
RECURSIVE order_fields(_)
order_fields(rows) ==
    IF rows = {} THEN <<>>
    ELSE LET first == CHOOSE r \in rows : \A o \in rows : r.field_order <= o.field_order
         IN  <<[name |-> first.name, kind |-> first.kind, required |-> first.required]>>
             \o order_fields(rows \ {first})

select_fields(tables, script_path_text) ==
    order_fields({ r \in tables.script_fields : r.script_path = script_path_text })

\* SearchDetails, from the row of the first SELECT and the rows of the second
SearchDetails(base, field_list) ==
    [display_name |-> base.display_name,
     fields |-> field_list,
     schema_error |-> base.schema_error]

----------------------------------------------------------------------------
(* search_index.rs: the shared status cell *)

StatusIdle == [tag |-> "Idle"]
StatusIndexing == [tag |-> "Indexing"]
StatusReady(n) == [tag |-> "Ready", script_count |-> n]
StatusError(message) == [tag |-> "Error", message |-> message]

\* The cell is a value under a lock, which is poisoned or not
\* SearchIndex::status
SearchIndex_status(cell) ==
    IF cell.poisoned
    THEN StatusError("Search status lock poisoned")
    ELSE cell.value

\* update_status
update_status(cell, next) ==
    IF cell.poisoned THEN cell ELSE [cell EXCEPT !.value = next]

\* start_background_rebuild, as it would be if a failed rebuild put the
\* status back to Idle
status_after_rebuild_resets(rebuilt) ==
    IF rebuilt.ok THEN StatusReady(rebuilt.count) ELSE StatusIdle

\* start_background_rebuild: the status the worker publishes for the result
\* of rebuild_index
status_after_rebuild(rebuilt) ==
    IF rebuilt.ok THEN StatusReady(rebuilt.count) ELSE StatusError(rebuilt.message)

----------------------------------------------------------------------------
(* The search screen and the rebuild worker *)

\* most characters the search query holds before typing stops
MaxQuery == 2

SearchChars == {"e", "%", " "}

sessionVars == <<selection, preview_script, schema_cache, formVars, should_quit,
                 histVars, env_config, running, now, runs, activeFile, widgetVars,
                 procVars>>

\* the session thread is between two events, not inside load_details
MainIdle == ~should_quit /\ result = None /\ running = None /\ pending = None

\* The store after a rebuild of the workspace as it is today
RebuiltTables ==
    LET t1 == insert_script(EmptyTables, list_scripts_recursive[1])
        t2 == insert_script(t1, list_scripts_recursive[2])
        t3 == insert_script(t2, list_scripts_recursive[3])
    IN  insert_script(t3, list_scripts_recursive[4])

\* rebuild_index: DELETE FROM script_fields and DELETE FROM script_index as
\* they would be if they left the rows in place
clear_tables_keeps(tables) == tables

\* rebuild_index: DELETE FROM script_fields, DELETE FROM script_index
clear_tables(tables) == [script_index |-> {}, script_fields |-> {}]

\* A session that finds the store new, or as an earlier session left it:
\* rebuilt when the workspace was different, or rebuilt as it is today
IndexInit ==
    /\ history = <<>>
    /\ history_dir = StoredHistory(history)
    /\ history_writable = TRUE
    /\ call = None
    /\ returned = None
    /\ resolutions = 0
    /\ activeFile = None
    /\ current_dir = Root
    /\ entries = Entries
    /\ AppNew
    /\ db \in { EmptyTables, StoredTables, RebuiltTables }

\* the session starts the rebuild once, when it starts
rebuild_not_started == worker = "unspawned"

\* SearchIndex::start_background_rebuild: the worker thread is spawned
StartBackgroundRebuild ==
    /\ rebuild_not_started
    /\ worker' = "spawned"
    /\ UNCHANGED <<screen, sessionVars, searchVars, status, txn, db>>

\* the worker's first statement: update_status(Indexing)
WorkerBegins ==
    /\ worker = "spawned"
    /\ status' = update_status(status, StatusIndexing)
    /\ worker' = "listing"
    /\ UNCHANGED <<screen, sessionVars, searchVars, txn, db>>

\* rebuild_index up to its loop: the scripts are listed, the store opened,
\* the transaction begun and both tables cleared inside it
WorkerOpensTransaction ==
    /\ worker = "listing"
    /\ txn' = Some([tables |-> clear_tables(db), next |-> 1])
    /\ worker' = "inserting"
    /\ UNCHANGED <<screen, sessionVars, searchVars, status, db>>

\* rebuild_index, one iteration of its loop
WorkerInsertsScript ==
    /\ worker = "inserting"
    /\ txn[1].next <= Len(list_scripts_recursive)
    /\ txn' = Some([tables |-> insert_script(txn[1].tables,
                                             list_scripts_recursive[txn[1].next]),
                    next |-> txn[1].next + 1])
    /\ UNCHANGED <<screen, sessionVars, searchVars, status, worker, db>>

\* rebuild_index: tx.commit()
WorkerCommits ==
    /\ worker = "inserting"
    /\ txn[1].next > Len(list_scripts_recursive)
    /\ db' = txn[1].tables
    /\ txn' = None
    /\ worker' = "committed"
    /\ UNCHANGED <<screen, sessionVars, searchVars, status>>

\* the worker's last statement after Ok(count)
WorkerPublishesReady ==
    /\ worker = "committed"
    /\ status' = update_status(status,
                     status_after_rebuild([ok |-> TRUE,
                                           count |-> Len(list_scripts_recursive),
                                           message |-> ""]))
    /\ worker' = "done"
    /\ UNCHANGED <<screen, sessionVars, searchVars, txn, db>>

\* rebuild_index returns Err: the transaction, if open, is rolled back when
\* it is dropped, and the worker publishes the error
WorkerFails ==
    /\ worker \in {"listing", "inserting"}
    /\ LET message == IF worker = "listing" THEN "List scripts failed"
                      ELSE IF txn[1].next <= Len(list_scripts_recursive)
                      THEN "Insert script failed"
                      ELSE "Commit search index failed"
       IN  status' = update_status(status,
                         status_after_rebuild([ok |-> FALSE, count |-> 0,
                                               message |-> message]))
    /\ txn' = None
    /\ worker' = "failed"
    /\ UNCHANGED <<screen, sessionVars, searchVars, db>>

\* the worker thread panics inside rebuild_index: the thread unwinds, the
\* transaction is rolled back, and nothing catches the panic or joins the
\* thread
WorkerPanics ==
    /\ worker \in {"listing", "inserting"}
    /\ txn' = None
    /\ worker' = "panicked"
    /\ UNCHANGED <<screen, sessionVars, searchVars, status, db>>

\* App::update_search_details up to the call of load_details: the details
\* are dropped, and load_details is entered for the selected result if there
\* is one
DetailsRequested(results, sel) ==
    /\ search_details' = None
    /\ pending' = IF sel < Len(results)
                  THEN Some([stage |-> "base",
                             script_path |-> results[sel + 1].script_path,
                             base |-> None])
                  ELSE None

\* App::refresh_search_results up to the call of load_details
RefreshSearchResults(text) ==
    /\ search_results' = query(db, text)
    /\ search_error' = None
    /\ search_selection' = 0
    /\ DetailsRequested(search_results', 0)

\* App::refresh_search_status, as it would be if it did not compare
status_differs_always(polled, seen) == TRUE

\* App::refresh_search_status: its comparison
status_differs(polled, seen) == polled # seen

\* App::refresh_search_status
RefreshSearchStatus ==
    LET polled == SearchIndex_status(status)
    IN  IF status_differs(polled, search_status)
        THEN /\ search_status' = polled
             /\ IF screen = "Search"
                THEN RefreshSearchResults(search_query)
                ELSE UNCHANGED <<search_results, search_error, search_selection,
                                 search_details, pending>>
        ELSE UNCHANGED <<search_status, search_results, search_error,
                         search_selection, search_details, pending>>

\* the event loop polls the status once on each of its ticks
Tick ==
    /\ MainIdle
    /\ RefreshSearchStatus
    /\ UNCHANGED <<screen, search_query, sessionVars, indexVars>>

\* App::enter_search
EnterSearch ==
    /\ MainIdle /\ screen = "ScriptSelect"
    /\ search_status' = SearchIndex_status(status)
    /\ screen' = "Search"
    /\ RefreshSearchResults(search_query)
    /\ UNCHANGED <<search_query, sessionVars, indexVars>>

\* App::append_search_char
AppendSearchChar(ch) ==
    /\ MainIdle /\ screen = "Search"
    /\ Len(search_query) < MaxQuery
    /\ search_query' = Append(search_query, ch)
    /\ RefreshSearchResults(search_query')
    /\ UNCHANGED <<screen, search_status, sessionVars, indexVars>>

\* App::pop_search_char
PopSearchChar ==
    /\ MainIdle /\ screen = "Search"
    /\ search_query' = IF search_query = <<>> THEN <<>>
                       ELSE SubSeq(search_query, 1, Len(search_query) - 1)
    /\ RefreshSearchResults(search_query')
    /\ UNCHANGED <<screen, search_status, sessionVars, indexVars>>

\* App::move_search_selection
MoveSearchSelection(delta) ==
    /\ MainIdle /\ screen = "Search"
    /\ search_results # <<>>
    /\ LET len == Len(search_results)
           new_index == IF search_selection + delta < 0 THEN 0
                        ELSE IF search_selection + delta >= len THEN len - 1
                        ELSE search_selection + delta
       IN  /\ search_selection' = new_index
           /\ DetailsRequested(search_results, new_index)
    /\ UNCHANGED <<screen, search_query, search_results, search_status, search_error,
                   sessionVars, indexVars>>

\* handle_search_key, Esc
LeaveSearch ==
    /\ MainIdle /\ screen = "Search"
    /\ screen' = "ScriptSelect"
    /\ UNCHANGED <<sessionVars, searchVars, indexVars>>

\* SearchIndex::load_details, its first SELECT; Ok(None) when the script has
\* no row (update_search_details then stores None and clears the error)
LoadDetailsBase ==
    /\ pending # None /\ pending[1].stage = "base"
    /\ LET base == select_base(db, pending[1].script_path)
       IN  IF base = None
           THEN /\ search_details' = None
                /\ search_error' = None
                /\ pending' = None
           ELSE /\ pending' = Some([pending[1] EXCEPT !.stage = "fields", !.base = base])
                /\ UNCHANGED <<search_details, search_error>>
    /\ UNCHANGED <<screen, search_query, search_results, search_selection,
                   search_status, sessionVars, indexVars>>

\* SearchIndex::load_details, its second SELECT, and the end of
\* update_search_details
LoadDetailsFields ==
    /\ pending # None /\ pending[1].stage = "fields"
    /\ search_details' = Some(SearchDetails(pending[1].base[1],
                                            select_fields(db, pending[1].script_path)))
    /\ search_error' = None
    /\ pending' = None
    /\ UNCHANGED <<screen, search_query, search_results, search_selection,
                   search_status, sessionVars, indexVars>>

IndexNext ==
    \/ StartBackgroundRebuild
    \/ WorkerBegins
    \/ WorkerOpensTransaction
    \/ WorkerInsertsScript
    \/ WorkerCommits
    \/ WorkerPublishesReady
    \/ WorkerFails
    \/ WorkerPanics
    \/ Tick
    \/ EnterSearch
    \/ \E ch \in SearchChars : AppendSearchChar(ch)
    \/ PopSearchChar
    \/ \E delta \in {-1, 1} : MoveSearchSelection(delta)
    \/ LeaveSearch
    \/ LoadDetailsBase
    \/ LoadDetailsFields

SpecIndex == IndexInit /\ [][IndexNext]_vars

----------------------------------------------------------------------------
(* Properties of the search index (claims C7 to C10) *)

\* the generations that are ever committed during a session
Generations == { EmptyTables, StoredTables, RebuiltTables }

\* what load_details returns for a script when it reads one generation
DetailsIn(g, script_path_text) ==
    SearchDetails(select_base(g, script_path_text)[1], select_fields(g, script_path_text))

\* the result list on the search screen is the answer of one committed
\* generation to the query
QueryOneGeneration ==
    screen = "Search" => \E g \in Generations : search_results = query(g, search_query)

\* C7: each single call of query and of load_details observes exactly one
\* fully committed generation of the index, the previous one or the new one:
\* the result list is the answer of one generation, and the details of a
\* script are its record and its field rows from one and the same generation
C7_OneGenerationPerCall ==
    /\ QueryOneGeneration
    /\ search_details # None =>
         \E g \in Generations : \E r \in g.script_index :
            search_details[1] = DetailsIn(g, r.script_path)

\* the status and the worker agree: Idle until the worker runs, Indexing
\* while it runs
StatusPhase ==
    /\ worker \in {"unspawned", "spawned"} => SearchIndex_status(status) = StatusIdle
    /\ worker \in {"listing", "inserting", "committed"} =>
         SearchIndex_status(status) = StatusIndexing

C10_FailureIsReported ==
    worker \in {"failed", "panicked"} => SearchIndex_status(status).tag = "Error"

----------------------------------------------------------------------------
(* The directory list and the status panel (app.rs) *)

\* most status-panel loads one session starts
MaxLoads == 3

\* A workspace whose root holds two directories and no script; db cannot be
\* read
Dir_db == Root \o <<"db">>
Dir_ops == Root \o <<"ops">>

\* ScriptService::list_entries(dir) in that workspace
TreeEntries(dir) ==
    IF dir = Root
    THEN << [path |-> Dir_db, kind |-> "Directory"],
            [path |-> Dir_ops, kind |-> "Directory"] >>
    ELSE <<>>

\* read_dir(dir) succeeds
Readable(dir) == dir # Dir_db

\* load_widget_state(dir): the root has an index.lua that gives a panel, that
\* of ops fails, db has none
load_widget_state(dir) ==
    CASE dir = Root    -> [widget |-> Some([title |-> "home", lines |-> <<"up">>]),
                           error |-> None]
      [] dir = Dir_ops -> [widget |-> None, error |-> Some("Lua error")]
      [] OTHER         -> [widget |-> None, error |-> None]

\* start_widget_load as it would be if it kept a receiver it already holds
receiver_after_start_kept(held, started) == IF held # None THEN held ELSE Some(started)

\* App::start_widget_load: the receiver the session holds afterwards
receiver_after_start(held, started) == Some(started)

\* dropping a Receiver discards the message its channel buffers
drop_receiver(ls, held) ==
    IF held # None /\ ls[held[1]].phase = "sent"
    THEN [ls EXCEPT ![held[1]].phase = "discarded"]
    ELSE ls

\* App::start_widget_load for directory dir
StartWidgetLoad(dir) ==
    /\ widget_loading' = TRUE
    /\ widget' = None
    /\ widget_error' = None
    /\ widget_receiver' = receiver_after_start(widget_receiver, Len(loads) + 1)
    /\ loads' = Append(IF widget_receiver' = widget_receiver THEN loads
                       ELSE drop_receiver(loads, widget_receiver),
                       [dir |-> dir, phase |-> "running"])

\* Receiver::try_recv, as it would be if it never found the message
try_recv_blind(load) ==
    IF load.phase = "died" THEN "Disconnected" ELSE "Empty"

\* Receiver::try_recv, as it would be if a load that is still running looked
\* like a worker that is gone
try_recv_hasty(load) ==
    IF load.phase = "sent" THEN "Ok" ELSE "Disconnected"

\* Receiver::try_recv on the channel of a load
try_recv(load) ==
    CASE load.phase = "sent" -> "Ok"
      [] load.phase = "died" -> "Disconnected"
      [] OTHER               -> "Empty"

\* App::poll_widget_load
PollWidgetLoad ==
    IF widget_receiver = None
    THEN UNCHANGED <<widget, widget_error, widget_loading, widget_receiver, loads>>
    ELSE LET k == widget_receiver[1]
             got == try_recv(loads[k])
         IN  CASE got = "Ok" ->
                    /\ widget' = load_widget_state(loads[k].dir).widget
                    /\ widget_error' = load_widget_state(loads[k].dir).error
                    /\ widget_loading' = FALSE
                    /\ widget_receiver' = None
                    /\ loads' = [loads EXCEPT ![k].phase = "received"]
               [] got = "Disconnected" ->
                    /\ widget_loading' = FALSE
                    /\ widget_receiver' = None
                    /\ UNCHANGED <<widget, widget_error, loads>>
               [] OTHER ->
                    UNCHANGED <<widget, widget_error, widget_loading,
                                widget_receiver, loads>>

treeRest == <<formVars, should_quit, histVars, running, now, runs, activeFile,
              searchVars, indexVars, procVars>>

\* the event loop polls the status-panel load once on each of its ticks
PollTick ==
    /\ KeyReady
    /\ PollWidgetLoad
    /\ UNCHANGED <<screen, navVars, current_dir, entries, env_config, treeRest>>

\* App::refresh_entries on a listing that succeeds
RefreshEntriesOk ==
    /\ entries' = TreeEntries(current_dir')
    /\ selection' = 0
    /\ error' = None
    /\ StartWidgetLoad(current_dir')
    /\ preview_script' = None
    /\ UNCHANGED <<screen, schema_cache>>

\* App::refresh_entries on a listing that fails
RefreshEntriesErr ==
    /\ error' = Some("read_dir failed")
    /\ screen' = "Error"
    /\ UNCHANGED <<entries, selection, preview_script, schema_cache, widget,
                   widget_error, widget_loading, widget_receiver, loads>>

\* App::refresh_entries
RefreshEntries ==
    IF Readable(current_dir')
    THEN Len(loads) < MaxLoads /\ RefreshEntriesOk
    ELSE RefreshEntriesErr

treeFormRest == <<fields, field_index, field_inputs, args, selected_script, result>>

\* App::move_selection in the directory list
MoveListSelection(delta) ==
    /\ KeyReady /\ screen = "ScriptSelect"
    /\ entries # <<>>
    /\ selection' = IF selection + delta < 0 THEN 0
                    ELSE IF selection + delta >= Len(entries) THEN Len(entries) - 1
                    ELSE selection + delta
    /\ preview_script' = None
    /\ UNCHANGED <<screen, schema_cache, formVars, should_quit, histVars, env_config,
                   running, now, otherVars>>

\* App::enter_selected on a directory
EnterDirectory ==
    /\ KeyReady /\ screen = "ScriptSelect"
    /\ selection < Len(entries)
    /\ entries[selection + 1].kind = "Directory"
    /\ current_dir' = entries[selection + 1].path
    /\ RefreshEntries
    /\ UNCHANGED <<treeFormRest, should_quit, histVars, env_config, running, now,
                   runs, activeFile, searchVars, indexVars, procVars>>

\* App::navigate_up
NavigateUp ==
    /\ KeyReady /\ screen = "ScriptSelect"
    /\ current_dir # Root
    /\ current_dir' = SubSeq(current_dir, 1, Len(current_dir) - 1)
    /\ RefreshEntries
    /\ UNCHANGED <<treeFormRest, should_quit, histVars, env_config, running, now,
                   runs, activeFile, searchVars, indexVars, procVars>>

\* handle_list_key: r
RefreshEntriesKey ==
    /\ KeyReady /\ screen = "ScriptSelect"
    /\ current_dir' = current_dir
    /\ RefreshEntries
    /\ UNCHANGED <<treeFormRest, should_quit, histVars, env_config, running, now,
                   runs, activeFile, searchVars, indexVars, procVars>>

\* App::refresh_status (handle_list_key: i)
RefreshStatus ==
    /\ KeyReady /\ screen = "ScriptSelect"
    /\ Len(loads) < MaxLoads
    /\ StartWidgetLoad(current_dir)
    /\ env_config' = load_environment_config(activeFile)
    /\ preview_script' = None
    /\ UNCHANGED <<screen, selection, schema_cache, current_dir, entries, treeRest>>

workerRest == <<screen, navVars, formVars, should_quit, histVars, env_config, running,
                now, runs, activeFile, searchVars, indexVars, current_dir, entries,
                widget, widget_error, widget_loading, widget_receiver, procVars>>

\* the worker of load k: load_widget_state(&dir) returns
WidgetWorkerComputes(k) ==
    /\ k \in 1..Len(loads)
    /\ loads[k].phase = "running"
    /\ loads' = [loads EXCEPT ![k].phase = "computed"]
    /\ UNCHANGED workerRest

\* the worker of load k: tx.send(result); the result is dropped with the
\* SendError when the receiver is gone
WidgetWorkerSends(k) ==
    /\ k \in 1..Len(loads)
    /\ loads[k].phase = "computed"
    /\ loads' = [loads EXCEPT ![k].phase =
                    IF widget_receiver = Some(k) THEN "sent" ELSE "discarded"]
    /\ UNCHANGED workerRest

\* the worker of load k panics inside load_widget_state: its sender is
\* dropped without a message
WidgetWorkerDies(k) ==
    /\ k \in 1..Len(loads)
    /\ loads[k].phase = "running"
    /\ loads' = [loads EXCEPT ![k].phase = "died"]
    /\ UNCHANGED workerRest

\* A session in the workspace of directories
WidgetInit ==
    /\ history = <<>>
    /\ history_dir = StoredHistory(history)
    /\ history_writable = TRUE
    /\ call = None
    /\ returned = None
    /\ resolutions = 0
    /\ activeFile = None
    /\ current_dir = Root
    /\ entries = TreeEntries(Root)
    /\ AppNew
    /\ db = EmptyTables

WidgetNext ==
    \/ \E delta \in {-1, 1} : MoveListSelection(delta)
    \/ EnterDirectory
    \/ NavigateUp
    \/ RefreshEntriesKey
    \/ RefreshStatus
    \/ DismissError
    \/ PollTick
    \/ \E k \in 1..Len(loads) : WidgetWorkerComputes(k)
    \/ \E k \in 1..Len(loads) : WidgetWorkerSends(k)
    \/ \E k \in 1..Len(loads) : WidgetWorkerDies(k)

SpecWidget == WidgetInit /\ [][WidgetNext]_vars

\* the event loop keeps ticking, and every worker that can take a step does
FairSpecWidget ==
    /\ SpecWidget
    /\ WF_vars(PollTick)
    /\ \A k \in 1..MaxLoads : WF_vars(WidgetWorkerComputes(k))
    /\ \A k \in 1..MaxLoads : WF_vars(WidgetWorkerSends(k))

----------------------------------------------------------------------------
(* Properties of the status panel (claims C11 to C14) *)

\* the load that was started last
Latest == Len(loads)

\* load k is delivered to the session in this step
Delivered(k) == loads[k].phase # "received" /\ loads'[k].phase = "received"

\* C11: what a poll installs was produced by the load started last, for the
\* directory that was current when that load started; the result of a load
\* that a later start superseded is never applied
C11_LatestLoadOnly ==
    [][ /\ Len(loads') > Len(loads) =>
             /\ loads'[Len(loads')].dir = current_dir'
             /\ widget' = None /\ widget_error' = None
        /\ \A k \in 1..Len(loads) : Delivered(k) =>
             /\ k = Latest
             /\ widget' = load_widget_state(loads[k].dir).widget
             /\ widget_error' = load_widget_state(loads[k].dir).error
        /\ (widget' # widget \/ widget_error' # widget_error) =>
             \/ Len(loads') > Len(loads)
             \/ Latest = Len(loads') /\ Delivered(Latest)
      ]_vars

\* the load for ops superseded an earlier one, whose result was thrown away,
\* and the error of ops is on the panel
C11_Witness ==
    /\ Len(loads) >= 2
    /\ \E k \in 1..(Latest - 1) : loads[k].phase = "discarded"
    /\ loads[Latest].phase = "received" /\ loads[Latest].dir = Dir_ops
    /\ widget_error = Some("Lua error")

\* the results of superseded loads that exist: computed by a worker whose
\* load is no longer the latest, and not yet dropped
Stranded == { k \in 1..(Latest - 1) : loads[k].phase = "computed" }

\* C12: at any time at most one superseded (stranded) status-panel result
\* exists, for any sequence of navigations and any scheduling of the workers
C12_AtMostOneStranded == Cardinality(Stranded) <= 1

\* C13: widget_loading is true exactly when a receiver is held; it stays
\* true from the start of a load until a poll observes the result or the
\* worker's disconnect; a poll that finds nothing leaves the state unchanged
C13_LoadingWhileReceiverHeld ==
    [][ /\ widget_loading = (widget_receiver # None)
        /\ widget_loading' = (widget_receiver' # None)
        /\ (widget_loading /\ ~widget_loading') =>
              loads[widget_receiver[1]].phase \in {"sent", "died"}
        /\ (PollTick /\ widget_receiver # None
              /\ loads[widget_receiver[1]].phase \in {"running", "computed"}) =>
              UNCHANGED vars
      ]_vars

\* after a navigation the new load has its result but has not sent it: the
\* panel is loading, the receiver is held and a poll finds nothing
C13_Witness ==
    /\ Len(loads) >= 2
    /\ widget_loading /\ widget_receiver = Some(Latest)
    /\ loads[Latest].phase = "computed"

\* what the session shows when load k is resolved
Resolved(k) ==
    /\ ~widget_loading
    /\ loads[k].phase = "received" =>
         /\ widget = load_widget_state(loads[k].dir).widget
         /\ widget_error = load_widget_state(loads[k].dir).error

----------------------------------------------------------------------------
(* The child processes of a session: every place where the program runs a  *)
(* script, by the thread that launches it and waits for its exit.  The     *)
(* session previews, opens and runs scripts, searches, and the rebuild     *)
(* worker indexes the workspace.                                           *)

\* App::load_schema: the child processes it launches, none when the schema
\* of the script is cached
load_schema_processes(script, cache) ==
    IF cache # None /\ cache[1].path = script
    THEN {}
    ELSE { SchemaProcess(script, "session") }

\* A session on the script list; the search store is new
ProcessInit ==
    /\ history = <<>>
    /\ history_dir = StoredHistory(history)
    /\ history_writable = TRUE
    /\ call = None
    /\ returned = None
    /\ resolutions = 0
    /\ activeFile = None
    /\ current_dir = Root
    /\ entries = Entries
    /\ AppNew
    /\ db = EmptyTables

procRest == <<runs, activeFile, searchVars, indexVars, widgetVars, reloaded,
             history_writable, call, returned, resolutions,
                   env_entries, env_selection>>

\* App::move_selection and the schema mode process of its preview
MoveSelectionPreview(delta) ==
    /\ KeyReady /\ screen = "ScriptSelect"
    /\ Entries # <<>>
    /\ LET new_index == IF selection + delta < 0 THEN 0
                        ELSE IF selection + delta >= Len(Entries) THEN Len(Entries) - 1
                        ELSE selection + delta
           p == update_schema_preview(new_index, preview_script, schema_cache)
       IN  /\ selection' = new_index
           /\ preview_script' = p.preview_script
           /\ schema_cache' = p.schema_cache
           /\ processes' = processes \cup
                  preview_processes(Entries, new_index, preview_script)
    /\ UNCHANGED <<screen, formVars, should_quit, histVars, env_config, running, now,
                   procRest>>

\* App::enter_selected and the schema mode process of load_schema
EnterSelectedScript ==
    /\ KeyReady /\ screen = "ScriptSelect"
    /\ runs < MaxRuns
    /\ selected_entry(selection) # None
    /\ selected_entry(selection)[1].kind = "Script"
    /\ LoadSchema(selected_entry(selection)[1].path)
    /\ processes' = processes \cup
           load_schema_processes(selected_entry(selection)[1].path, schema_cache)
    /\ UNCHANGED <<selection, preview_script, should_quit, histVars, running, now,
                   procRest>>

\* run_app: service.run_script returns; the process it launched, if its
\* checks passed, has exited
RunProcessReturns(outcome, elapsed) ==
    /\ running # None
    /\ now' = now + elapsed
    /\ LET entry == IF outcome.launched
                    THEN success_entry(now', running[1].script, running[1].args, outcome)
                    ELSE error_entry(now', running[1].script, running[1].args,
                                     outcome.message)
       IN  /\ history_dir' = record_entry(history_dir, entry, ProcessId, history_writable)
           /\ history' = recorded_entry_added(history, entry, history_writable)
    /\ history_selection' = 0
    /\ ResetForm
    /\ processes' = IF outcome.launched
                    THEN processes \cup { RunProcess(running[1].script) }
                    ELSE processes
    /\ screen' = "RunResult"
    /\ running' = None
    /\ UNCHANGED <<navVars, should_quit, history_focus, env_config, procRest>>

\* rebuild_index, one iteration of its loop, and the schema mode process of
\* its repo.read_schema(script)
WorkerIndexesScript ==
    /\ worker = "inserting"
    /\ txn[1].next <= Len(list_scripts_recursive)
    /\ txn' = Some([tables |-> insert_script(txn[1].tables,
                                             list_scripts_recursive[txn[1].next]),
                    next |-> txn[1].next + 1])
    /\ processes' = processes \cup
           { SchemaProcess(list_scripts_recursive[txn[1].next], "indexer") }
    /\ UNCHANGED <<screen, navVars, formVars, should_quit, histVars, env_config,
                   running, now, runs, activeFile, widgetVars, searchVars, status,
                   worker, db, reloaded, history_writable, call, returned, resolutions,
                   env_entries, env_selection>>

ProcessNext ==
    \/ \E delta \in {-1, 1} : MoveSelectionPreview(delta)
    \/ EnterSelectedScript
    \/ SubmitForm
    \/ LeaveForm
    \/ DismissError
    \/ BackToList
    \/ StartRun
    \/ \E outcome \in RunOutcomes, elapsed \in {0, 1} : RunProcessReturns(outcome, elapsed)
    \/ StartBackgroundRebuild
    \/ WorkerBegins
    \/ WorkerOpensTransaction
    \/ WorkerIndexesScript
    \/ WorkerCommits
    \/ WorkerPublishesReady
    \/ EnterSearch
    \/ LoadDetailsBase
    \/ LoadDetailsFields
    \/ LeaveSearch

SpecProcess == ProcessInit /\ [][ProcessNext]_vars

----------------------------------------------------------------------------
(* Properties of the child processes (claims C15 and C16) *)

\* the child processes launched in this step
Launched == processes' \ processes

\* C15: the only step of the interactive thread that waits on an external
\* process is the runner invocation made while the screen is Running; no
\* key handler (moving the selection, opening a script, searching) waits
\* on an external process
C15_SessionWaitsOnlyWhileRunning ==
    [][ \A p \in Launched :
            p.thread = "session" => p.mode = "run" /\ screen = "Running" ]_vars

\* C16: a script process is launched only while the screen is Running, and
\* once per execution request; browsing, previewing, indexing and searching
\* never execute a script
C16_ScriptsRunOnlyOnRequest ==
    [][ /\ \A p \in Launched :
              /\ p.mode = "run" /\ screen = "Running"
              /\ running # None /\ p.script = running[1].script
        /\ Cardinality(Launched) <= 1 ]_vars

----------------------------------------------------------------------------
(* Searching a store whose records hold pattern characters and names in    *)
(* both cases: the user types a query on the search screen.                *)

\* most characters of a query typed here
MaxText == 3

\* the characters typed here
QueryChars == {"a", "B", "x", "%", "_", "\\", " "}

\* the record rebuild_index stores for a script with this path and this
\* schema name, without fields
NamedRecord(tables, script_path_text, name) ==
    index_script(tables, script_path_text, script_path_text,
                 [ok |-> TRUE, message |-> "", schema |-> [name |-> name, fields |-> <<>>]])

\* A store after the rebuild of a workspace of five scripts
QueryTables ==
    LET t1 == NamedRecord(EmptyTables, <<"a","_","b">>, <<"A","%","b">>)
        t2 == NamedRecord(t1, <<"a","x","b">>, <<"a","b">>)
        t3 == NamedRecord(t2, <<"b","\\","a">>, <<"B">>)
        t4 == NamedRecord(t3, <<"B","a">>, <<"b">>)
    IN  NamedRecord(t4, <<"a","x">>, <<"Z","b">>)

\* A session whose store is rebuilt already
QueryInit ==
    /\ history = <<>>
    /\ history_dir = StoredHistory(history)
    /\ history_writable = TRUE
    /\ call = None
    /\ returned = None
    /\ resolutions = 0
    /\ activeFile = None
    /\ current_dir = Root
    /\ entries = Entries
    /\ AppNew
    /\ db = QueryTables

\* App::append_search_char for the characters typed here
AppendQueryChar(ch) ==
    /\ MainIdle /\ screen = "Search"
    /\ Len(search_query) < MaxText
    /\ search_query' = Append(search_query, ch)
    /\ RefreshSearchResults(search_query')
    /\ UNCHANGED <<screen, search_status, sessionVars, indexVars>>

QueryNext ==
    \/ EnterSearch
    \/ \E ch \in QueryChars : AppendQueryChar(ch)
    \/ PopSearchChar
    \/ \E delta \in {-1, 1} : MoveSearchSelection(delta)
    \/ LeaveSearch
    \/ LoadDetailsBase
    \/ LoadDetailsFields

SpecQuery == QueryInit /\ [][QueryNext]_vars

----------------------------------------------------------------------------
(* Properties of the query (claims C17 and C18) *)

\* the whitespace-separated tokens of a text, lowercased
Tokens(text) ==
    { to_lowercase(SubSeq(text, i, j)) :
        <<i, j>> \in { w \in (1..Len(text)) \X (1..Len(text)) :
                         /\ w[1] <= w[2]
                         /\ \A k \in w[1]..w[2] : text[k] # " "
                         /\ w[1] = 1 \/ text[w[1] - 1] = " "
                         /\ w[2] = Len(text) \/ text[w[2] + 1] = " " } }

\* token is a substring of text
Contains(text, token) ==
    \E i \in 0..(Len(text) - Len(token)) : SubSeq(text, i + 1, i + Len(token)) = token

\* a is before b or equal to it, letter case ignored
LexLe(a, b) ==
    LET x == to_lowercase(a)
        y == to_lowercase(b)
    IN  \/ Len(x) <= Len(y) /\ SubSeq(y, 1, Len(x)) = x
        \/ \E k \in 1..Len(x) :
              /\ k <= Len(y)
              /\ SubSeq(x, 1, k - 1) = SubSeq(y, 1, k - 1)
              /\ CharCode(x[k]) < CharCode(y[k])

\* the search blob stored for a result
BlobOf(found) ==
    (CHOOSE r \in db.script_index : r.script_path = found.script_path).search_blob

\* C17: a query without a token returns every indexed record; a query with
\* tokens returns exactly the records whose blob contains every lowercased
\* token as a substring; in both cases ordered by display name, then path,
\* case-insensitively
C17_QueryResults ==
    screen = "Search" =>
        LET want == { r \in db.script_index :
                        \A t \in Tokens(search_query) : Contains(r.search_blob, t) }
        IN  /\ Len(search_results) = Cardinality(want)
            /\ { search_results[i].script_path : i \in 1..Len(search_results) }
                 = { r.script_path : r \in want }
            /\ \A i \in 1..Len(search_results) : \A j \in (i + 1)..Len(search_results) :
                 LET r == search_results[i]
                     o == search_results[j]
                 IN  \/ ~LexLe(o.display_name, r.display_name)
                     \/ /\ LexLe(r.display_name, o.display_name)
                        /\ LexLe(r.script_path, o.script_path)

\* two tokens, the first typed in upper case: the two records that hold
\* both, the one named B before the one named Zb
C17_Witness ==
    /\ screen = "Search"
    /\ search_query = <<"B", " ", "x">>
    /\ Len(search_results) = 2
    /\ search_results[1].display_name = <<"a","b">>
    /\ search_results[2].display_name = <<"Z","b">>

\* the tokens of a text that hold a pattern character
PatternTokens(text) ==
    { t \in Tokens(text) : \E k \in 1..Len(t) : t[k] \in {"%", "_", "\\"} }

\* C18: %, _ and the escape character in a token are matched literally: a
\* token holding one of them matches a record only if the record's blob
\* holds that exact character sequence
C18_PatternCharsLiteral ==
    screen = "Search" =>
        \A i \in 1..Len(search_results) : \A t \in PatternTokens(search_query) :
            Contains(BlobOf(search_results[i]), t)

\* the query a_b finds the script a_b and not the script axb
C18_Witness ==
    /\ screen = "Search"
    /\ search_query = <<"a", "_", "B">>
    /\ Len(search_results) = 1
    /\ search_results[1].script_path = <<"a","_","b">>

----------------------------------------------------------------------------
(* Properties of the rebuild (claim C19), of SpecIndex *)

\* the texts queried to compare two stores
ProbeQueries == { <<>>, <<"o","l","d">>, <<"s","h"," ","c">> }

\* what the session can read of a store: the number of records, the result
\* of every query, the details of every script ever indexed
Readout(tables) ==
    [count   |-> Cardinality(tables.script_index),
     results |-> [q \in ProbeQueries |-> query(tables, q)],
     details |-> [p \in { r.script_path : r \in StoredTables.script_index
                                              \cup RebuiltTables.script_index } |->
                    [base |-> select_base(tables, p), fields |-> select_fields(tables, p)]]]

\* what the session reads of the store a rebuild of a new store commits
RebuiltReadout == Readout(RebuiltTables)

\* C19: a rebuild over the store of an earlier rebuild of the same catalog
\* commits the same record count and the same result for every query as a
\* rebuild of a new store; a script removed from disk since has no record
\* and no field rows after the rebuild
C19_RebuildIdempotent ==
    [][ (worker = "inserting" /\ worker' = "committed") =>
          /\ Readout(db') = RebuiltReadout
          /\ Cardinality(db'.script_index) = Len(list_scripts_recursive)
          /\ \A r \in db'.script_index \cup db'.script_fields :
                r.script_path # ComponentText("old.sh")
      ]_vars

\* the rebuild has committed while the search screen still lists old.sh,
\* which the store held when the session started
C19_Witness ==
    /\ worker = "committed"
    /\ db = RebuiltTables
    /\ \E i \in 1..Len(search_results) :
          search_results[i].script_path = ComponentText("old.sh")

----------------------------------------------------------------------------
(* The history directory: a session runs scripts, each run is recorded by  *)
(* record_entry, and the next session loads the directory.                 *)

\* most entries the history holds before the session stops opening scripts
MaxEntries == 2

\* A session over a history directory with or without an earlier entry
HistoryInit ==
    /\ history \in { <<>>, <<OldEntry>> }
    /\ history_dir = StoredHistory(history)
    /\ history_writable \in BOOLEAN
    /\ call = None
    /\ returned = None
    /\ resolutions = 0
    /\ activeFile = None
    /\ current_dir = Root
    /\ entries = Entries
    /\ AppNew
    /\ db = EmptyTables

\* App::enter_selected, for as many runs as the history holds here
EnterSelectedToRun ==
    /\ KeyReady /\ screen = "ScriptSelect"
    /\ Len(history) < MaxEntries
    /\ selected_entry(selection) # None
    /\ selected_entry(selection)[1].kind = "Script"
    /\ LoadSchema(selected_entry(selection)[1].path)
    /\ UNCHANGED <<selection, preview_script, should_quit, histVars, running, now,
                   otherVars>>

\* run_app of the next session: history::load_entries(&workspace)
LoadEntries ==
    /\ should_quit
    /\ reloaded = None
    /\ \E listing \in read_dir(history_dir) : reloaded' = Some(load_entries(listing))
    /\ UNCHANGED <<screen, navVars, formVars, should_quit, histVars, env_config, running,
                   now, runs, activeFile, searchVars, indexVars, widgetVars, processes,
                   history_writable, call, returned, resolutions,
                   env_entries, env_selection>>

HistoryNext ==
    \/ \E delta \in {-1, 1} : MoveSelection(delta)
    \/ EnterSelectedToRun
    \/ SubmitForm
    \/ LeaveForm
    \/ DismissError
    \/ BackToList
    \/ StartRun
    \/ \E outcome \in RunOutcomes, elapsed \in {0, 1} : RunnerReturns(outcome, elapsed)
    \/ QuitKey
    \/ LoadEntries

SpecHistory == HistoryInit /\ [][HistoryNext]_vars

----------------------------------------------------------------------------
(* Properties of the history directory (claim C20) *)

\* how often an entry occurs in a list of entries
Occurrences(es, e) == Cardinality({ i \in 1..Len(es) : es[i] = e })

\* C20: after N entries were persisted with record_entry, load_entries
\* returns exactly N entries, each equal field for field to a persisted
\* one, ordered by timestamp descending; also for entries of one script
\* recorded by one process within the same millisecond
C20_ReloadReturnsEveryEntry ==
    (reloaded # None /\ history_writable) =>
        /\ Len(reloaded[1]) = Len(history)
        /\ \A i \in 1..Len(history) :
              Occurrences(reloaded[1], history[i]) = Occurrences(history, history[i])
        /\ \A i \in 1..Len(reloaded[1]) : \A j \in (i + 1)..Len(reloaded[1]) :
              reloaded[1][i].timestamp >= reloaded[1][j].timestamp

----------------------------------------------------------------------------
(* Properties of the in-memory history (claim C21), of SpecHistory *)

\* C21: in every reachable session state the in-memory history is ordered
\* by strictly descending timestamp, after the initial load and after every
\* add_history_entry
C21_HistoryStrictlyDescending ==
    \A i \in 1..(Len(history) - 1) : history[i].timestamp > history[i + 1].timestamp

----------------------------------------------------------------------------
(* The history directory with other things in it: a session that loads,   *)
(* browses the history and quits, and the next session's load             *)

\* a failed run an earlier session recorded
FailedEntry ==
    [timestamp |-> 1, script |-> <<"cleanup.sh">>, args |-> <<"--force">>,
     success |-> FALSE, exit_code |-> None, error |-> Some("spawn failed")]

\* the records earlier sessions wrote
RecordedFiles == StoredHistory(<<FailedEntry, OldEntry>>)

\* what load_entries passes over: a sub-directory, the search index, a record
\* that cannot be read, a record cut short
JunkFiles ==
    { [name |-> [stem |-> "archive", ext |-> "json"],
       data |-> to_vec_pretty(OldEntry), is_file |-> FALSE, readable |-> TRUE],
      [name |-> [stem |-> "search-index", ext |-> "sqlite"],
       data |-> to_vec_pretty(OldEntry), is_file |-> TRUE, readable |-> TRUE],
      [name |-> [stem |-> "locked", ext |-> "json"],
       data |-> to_vec_pretty(FailedEntry), is_file |-> TRUE, readable |-> FALSE],
      [name |-> [stem |-> "truncated", ext |-> "json"],
       data |-> [timestamp |-> 2], is_file |-> TRUE, readable |-> TRUE] }

LoadInit ==
    /\ \E stored \in SUBSET RecordedFiles, junk \in SUBSET JunkFiles :
          history_dir = stored \cup junk
    /\ \E listing \in read_dir(history_dir) : history = load_entries(listing)
    /\ history_writable = TRUE
    /\ call = None
    /\ returned = None
    /\ resolutions = 0
    /\ activeFile = None
    /\ current_dir = Root
    /\ entries = Entries
    /\ AppNew
    /\ db = EmptyTables

LoadNext ==
    \/ OpenHistory
    \/ \E delta \in {-1, 1} : MoveHistorySelection(delta)
    \/ ToggleHistoryFocus
    \/ BackToList
    \/ QuitKey
    \/ LoadEntries

SpecLoad == LoadInit /\ [][LoadNext]_vars

\* the entries of a list are those of the records in the directory, one each
LoadedRecords(es) ==
    /\ Len(es) = Cardinality(history_dir \ JunkFiles)
    /\ \A f \in history_dir \ JunkFiles : \E i \in 1..Len(es) : es[i] = from_slice(f.data)

\* C22: load_entries returns every readable, parseable record whatever else
\* the directory holds: sub-directories, files without the json extension,
\* unreadable files and unparseable files are skipped, and neither make the
\* load fail nor drop a valid record
C22_LoadSkipsOnlyJunk ==
    /\ LoadedRecords(history)
    /\ reloaded # None => LoadedRecords(reloaded[1])

C22_Witness ==
    /\ JunkFiles \subseteq history_dir
    /\ RecordedFiles \subseteq history_dir
    /\ reloaded # None
    /\ Len(reloaded[1]) = 2

----------------------------------------------------------------------------
(* Properties of a run whose history file cannot be written (claim C23),  *)
(* of SpecHistory                                                         *)

\* C23: when persisting the history entry fails, the failure is swallowed:
\* the entry of the finished run is still prepended to the in-memory
\* history and the session reaches RunResult, as when persisting succeeds;
\* only the directory stays as it was
C23_PersistFailureSwallowed ==
    [][ (running # None /\ running' = None /\ ~history_writable) =>
            /\ Len(history') = Len(history) + 1
            /\ Tail(history') = history
            /\ history'[1].script = script_path(running[1].script)
            /\ history'[1].args = running[1].args
            /\ history'[1].timestamp = now'
            /\ history_selection' = 0
            /\ screen' = "RunResult"
            /\ ~should_quit'
            /\ history_dir' = history_dir ]_vars

C23_Witness ==
    /\ ~history_writable
    /\ screen = "RunResult"
    /\ history_dir = {}
    /\ Len(history) = MaxEntries

----------------------------------------------------------------------------
(* normalize_input called on its own (claim C24)                          *)

Str_yes == <<"y","e","s">>

\* fields of every kind, required or not, with and without default and
\* choices
NormalizeFields ==
    { Field(Str_count, kind, 1, required, default, choices, None) :
        kind \in { Str_string, Str_Number, Str_bool },
        required \in { None, Some(FALSE), Some(TRUE) },
        default \in { None, Some(<<"7">>), Some(Str_yes) },
        choices \in { None, Some(<< <<"7">>, <<"8">> >>) } }

\* inputs that are empty after trimming, and one that is not
NormalizeInputs == { <<>>, <<" ">>, <<" ", " ">>, <<" ", "8">> }

NormalizeInit ==
    /\ history = <<>>
    /\ history_dir = StoredHistory(history)
    /\ history_writable = TRUE
    /\ call \in { Some([field |-> field, input |-> input]) :
                    field \in NormalizeFields, input \in NormalizeInputs }
    /\ returned = None
    /\ resolutions = 0
    /\ activeFile = None
    /\ current_dir = Root
    /\ entries = Entries
    /\ AppNew
    /\ db = EmptyTables

\* everything but what a call returned
callRest == <<screen, navVars, formVars, should_quit, histVars, env_config, running,
              now, runs, activeFile, searchVars, indexVars, widgetVars, processes,
              reloaded, history_writable, call, resolutions,
                   env_entries, env_selection>>

NormalizeInput ==
    /\ returned = None
    /\ returned' = Some(normalize_input(call[1].field, call[1].input))
    /\ UNCHANGED callRest

NormalizeNext == NormalizeInput

SpecNormalize == NormalizeInit /\ [][NormalizeNext]_vars

\* C24: for an input that is empty after trimming, normalize_input returns
\* the field's default when one is declared, fails with "Value required"
\* when there is no default and the field is required, and returns "omit"
\* when there is no default and the field is optional
C24_EmptyInputOutcome ==
    (returned # None /\ trim(call[1].input) = <<>>) =>
        LET field == call[1].field
        IN  IF field.default # None THEN returned[1] = Ok(Some(field.default[1]))
            ELSE IF field.required = Some(TRUE) THEN returned[1] = Err("Value required")
            ELSE returned[1] = Ok(None)

----------------------------------------------------------------------------
(* format_timestamp called on its own (claim C25): a calendar is walked   *)
(* day by day next to the timestamps that are formatted                   *)

\* last day after 1970-01-01 that is formatted
MaxDay == 20100

DigitChars == <<"0", "1", "2", "3", "4", "5", "6", "7", "8", "9">>

\* i64 as Display writes it, for a number that is not negative
RECURSIVE decimal(_)
decimal(n) ==
    IF n < 10 THEN <<DigitChars[n + 1]>>
    ELSE decimal(n \div 10) \o <<DigitChars[(n % 10) + 1]>>

\* format!("{:0width$}", n)
RECURSIVE zero_padded(_, _)
zero_padded(text, width) ==
    IF Len(text) >= width THEN text ELSE zero_padded(<<"0">> \o text, width)

\* civil_from_days as it would be without the century terms
civil_from_days_every_fourth(days) ==
    LET z == days + 719468
        era == (IF z >= 0 THEN z ELSE z - 146096) \div 146097
        doe == z - era * 146097
        yoe == (doe - doe \div 1460) \div 365
        y == yoe + era * 400
        doy == doe - (365 * yoe + yoe \div 4)
        mp == (5 * doy + 2) \div 153
        day == doy - (153 * mp + 2) \div 5 + 1
        month == mp + (IF mp < 10 THEN 3 ELSE -9)
        year == y + (IF month <= 2 THEN 1 ELSE 0)
    IN  <<year, month, day>>

\* civil_from_days; no operand is negative here, where / and \div agree
civil_from_days(days) ==
    LET z == days + 719468
        era == (IF z >= 0 THEN z ELSE z - 146096) \div 146097
        doe == z - era * 146097
        yoe == (doe - doe \div 1460 + doe \div 36524 - doe \div 146096) \div 365
        y == yoe + era * 400
        doy == doe - (365 * yoe + yoe \div 4 - yoe \div 100)
        mp == (5 * doy + 2) \div 153
        day == doy - (153 * mp + 2) \div 5 + 1
        month == mp + (IF mp < 10 THEN 3 ELSE -9)
        year == y + (IF month <= 2 THEN 1 ELSE 0)
    IN  <<year, month, day>>

\* format!("{:04}-{:02}-{:02} {:02}:{:02}", year, month, day, hour, minute)
format_date_time(year, month, day, hour, minute) ==
    zero_padded(decimal(year), 4) \o <<"-">> \o zero_padded(decimal(month), 2)
        \o <<"-">> \o zero_padded(decimal(day), 2) \o <<" ">>
        \o zero_padded(decimal(hour), 2) \o <<":">> \o zero_padded(decimal(minute), 2)

\* format_timestamp; the i64 timestamp_ms is seconds * 1000 + millis with
\* millis in 0..999, so that ms / 1000 is seconds
format_timestamp(timestamp) ==
    LET seconds == IF timestamp.seconds < 0 THEN 0 ELSE timestamp.seconds
        days == seconds \div 86400
        seconds_of_day == seconds % 86400
        hour == seconds_of_day \div 3600
        minute == (seconds_of_day % 3600) \div 60
        date == civil_from_days(days)
    IN  format_date_time(date[1], date[2], date[3], hour, minute)

\* the Gregorian calendar: leap years, lengths of months, the day after
IsLeapYear(year) == year % 4 = 0 /\ (year % 100 # 0 \/ year % 400 = 0)

DaysInMonth(year, month) ==
    IF month = 2 THEN (IF IsLeapYear(year) THEN 29 ELSE 28)
    ELSE IF month \in {4, 6, 9, 11} THEN 30 ELSE 31

DayAfter(date) ==
    IF date.day < DaysInMonth(date.year, date.month)
    THEN [date EXCEPT !.day = @ + 1]
    ELSE IF date.month < 12
    THEN [date EXCEPT !.month = @ + 1, !.day = 1]
    ELSE [year |-> date.year + 1, month |-> 1, day |-> 1]

\* times of day: midnight, 12:34:56, the last second
TimesOfDay == { [hour |-> 0, minute |-> 0, second |-> 0],
                [hour |-> 12, minute |-> 34, second |-> 56],
                [hour |-> 23, minute |-> 59, second |-> 59] }

\* the timestamp of a time of a day, with the date and the time it falls on
TimestampAt(days, date, time, millis) ==
    [seconds |-> days * 86400 + time.hour * 3600 + time.minute * 60 + time.second,
     millis |-> millis, days |-> days, date |-> date, time |-> time]

TimestampInit ==
    /\ history = <<>>
    /\ history_dir = StoredHistory(history)
    /\ history_writable = TRUE
    /\ \E time \in TimesOfDay, millis \in {0, 999} :
          call = Some(TimestampAt(0, [year |-> 1970, month |-> 1, day |-> 1], time, millis))
    /\ returned = None
    /\ resolutions = 0
    /\ activeFile = None
    /\ current_dir = Root
    /\ entries = Entries
    /\ AppNew
    /\ db = EmptyTables

\* the same time one day of milliseconds later
OneDayLater ==
    /\ call[1].days < MaxDay
    /\ call' = Some(TimestampAt(call[1].days + 1, DayAfter(call[1].date),
                                call[1].time, call[1].millis))
    /\ returned' = None
    /\ UNCHANGED <<screen, navVars, formVars, should_quit, histVars, env_config,
                   running, now, runs, activeFile, searchVars, indexVars, widgetVars,
                   processes, reloaded, history_writable, resolutions,
                   env_entries, env_selection>>

FormatTimestamp ==
    /\ returned = None
    /\ returned' = Some(format_timestamp(call[1]))
    /\ UNCHANGED callRest

TimestampNext == OneDayLater \/ FormatTimestamp

SpecTimestamp == TimestampInit /\ [][TimestampNext]_vars

\* C25: for every epoch-millisecond timestamp of the range, format_timestamp
\* yields the Gregorian UTC date and hour:minute of that instant: 0 gives
\* 1970-01-01 00:00, one day of milliseconds later is the next civil day,
\* and leap days such as 2024-02-29 come on their day
C25_GregorianDateAndTime ==
    returned # None =>
        LET date == call[1].date
            time == call[1].time
        IN  /\ returned[1] = format_date_time(date.year, date.month, date.day,
                                              time.hour, time.minute)
            /\ (call[1].seconds = 0 /\ call[1].millis = 0) =>
                  returned[1] = <<"1","9","7","0","-","0","1","-","0","1"," ","0","0",":","0","0">>
            /\ call[1].days = 1 => SubSeq(returned[1], 1, 10) = <<"1","9","7","0","-","0","1","-","0","2">>
            /\ call[1].days = 19782 =>
                  SubSeq(returned[1], 1, 10) = <<"2","0","2","4","-","0","2","-","2","9">>

C25_Witness ==
    /\ returned # None
    /\ call[1].days = 19782
    /\ call[1].date = [year |-> 2024, month |-> 2, day |-> 29]
    /\ returned[1] = <<"2","0","2","4","-","0","2","-","2","9"," ","2","3",":","5","9">>

----------------------------------------------------------------------------
(* extract_schema_block and parse_schema called on their own (claims C26, *)
(* C27).  A text is a sequence of its characters, where a word (a run of  *)
(* characters that are neither white space nor punctuation) and a JSON    *)
(* string literal are each written as one element.                        *)

\* most lines of a script that is searched for its block
MaxLines == 4

SCHEMA_START == <<"OMAKURE_SCHEMA_START">>
SCHEMA_END == <<"OMAKURE_SCHEMA_END">>

\* strip_comment_prefix as it would be if it dropped every space after the
\* prefix
RECURSIVE strip_comment_prefix_and_indent(_, _)
strip_comment_prefix_and_indent(line, prefixes) ==
    LET trimmed == trim_start(line)
    IN  IF prefixes = <<>> THEN None
        ELSE IF starts_with(trimmed, Head(prefixes))
        THEN Some(trim_start(SubSeq(trimmed, Len(Head(prefixes)) + 1, Len(trimmed))))
        ELSE strip_comment_prefix_and_indent(line, Tail(prefixes))

\* strip_comment_prefix: Option<&str>
RECURSIVE strip_comment_prefix(_, _)
strip_comment_prefix(line, prefixes) ==
    LET trimmed == trim_start(line)
    IN  IF prefixes = <<>> THEN None
        ELSE IF starts_with(trimmed, Head(prefixes))
        THEN LET remainder == SubSeq(trimmed, Len(Head(prefixes)) + 1, Len(trimmed))
             IN  Some(IF starts_with(remainder, <<" ">>) THEN Tail(remainder) ELSE remainder)
        ELSE strip_comment_prefix(line, Tail(prefixes))

\* extract_schema_block as it would be if no line without a prefix were passed
\* over inside the block
passes_over_never(line) == FALSE

\* extract_schema_block: if line.trim().is_empty() { continue; }
passes_over(line) == trim(line) = <<>>

\* Err(format!("Schema block line missing comment prefix at line {}", index + 1))
ErrAtLine(m, n) == [ok |-> FALSE, value |-> None, message |-> m, line |-> n]

\* extract_schema_block: the loop from the line of 0-based index on
RECURSIVE extract_loop(_, _, _, _, _)
extract_loop(ls, index, in_block, buffer, prefixes) ==
    IF index >= Len(ls) THEN Err("Schema block not found")
    ELSE
      LET line == ls[index + 1]
          stripped == strip_comment_prefix(line, prefixes)
      IN  IF stripped # None
          THEN LET commented == stripped[1]
                   trimmed == trim(commented)
               IN  IF ~in_block /\ trimmed = SCHEMA_START
                   THEN extract_loop(ls, index + 1, TRUE, buffer, prefixes)
                   ELSE IF in_block /\ trimmed = SCHEMA_END
                   THEN IF trim(buffer) = <<>>
                        THEN Err("Schema block is empty")
                        ELSE Ok(buffer)
                   ELSE IF in_block
                   THEN extract_loop(ls, index + 1, in_block,
                            (IF buffer # <<>> THEN buffer \o <<"\n">> ELSE buffer)
                                \o commented,
                            prefixes)
                   ELSE extract_loop(ls, index + 1, in_block, buffer, prefixes)
          ELSE IF in_block
          THEN IF passes_over(line)
               THEN extract_loop(ls, index + 1, in_block, buffer, prefixes)
               ELSE ErrAtLine("Schema block line missing comment prefix", index + 1)
          ELSE extract_loop(ls, index + 1, in_block, buffer, prefixes)

\* extract_schema_block: Result<String, String>
extract_schema_block(contents, prefixes) ==
    extract_loop(lines(contents), 0, FALSE, <<>>, prefixes)

\* the JSON string literals of the texts, each one element of a text
StringLiterals == { "\"Name\"", "\"Fields\"", "\"Description\"", "\"deploy\"", "\"cleanup\"" }

\* serde_json: white space between tokens is skipped
json_tokens(text) == SelectSeq(text, LAMBDA c : ~IsWhitespace(c))

\* serde_json: a value that starts at token i, here a string or an empty
\* array: [ok, value, next]
json_value(ts, i) ==
    IF i <= Len(ts) /\ ts[i] \in StringLiterals
    THEN [ok |-> TRUE, value |-> [string |-> ts[i]], next |-> i + 1]
    ELSE IF i + 1 <= Len(ts) /\ ts[i] = "[" /\ ts[i + 1] = "]"
    THEN [ok |-> TRUE, value |-> [array |-> <<>>], next |-> i + 2]
    ELSE [ok |-> FALSE, value |-> None, next |-> i]

\* serde_json: the members of an object whose next key is at token i, up to
\* its closing brace: [ok, members]
RECURSIVE json_members(_, _, _)
json_members(ts, i, members) ==
    IF ~(i + 1 <= Len(ts) /\ ts[i] \in StringLiterals /\ ts[i + 1] = ":")
    THEN [ok |-> FALSE, members |-> <<>>]
    ELSE LET v == json_value(ts, i + 2)
             all == Append(members, [key |-> ts[i], value |-> v.value])
         IN  IF ~v.ok \/ v.next > Len(ts) THEN [ok |-> FALSE, members |-> <<>>]
             ELSE IF ts[v.next] = "}" THEN [ok |-> TRUE, members |-> all]
             ELSE IF ts[v.next] = "," THEN json_members(ts, v.next + 1, all)
             ELSE [ok |-> FALSE, members |-> <<>>]

\* Schema::deserialize of the object that starts the text; what follows the
\* object is not looked at. Name and Fields are needed, Description may be
\* given, no key twice, other keys are passed over
deserialize_schema(json) ==
    LET ts == json_tokens(json)
        parsed == IF Len(ts) >= 2 /\ ts[1] = "{" /\ ts[2] # "}"
                  THEN json_members(ts, 2, <<>>)
                  ELSE [ok |-> FALSE, members |-> <<>>]
        ms == parsed.members
        at(key) == { i \in 1..Len(ms) : ms[i].key = key }
        one(key) == ms[CHOOSE i \in at(key) : TRUE].value
    IN  IF /\ parsed.ok
           /\ \A key \in {"\"Name\"", "\"Fields\"", "\"Description\""} :
                 Cardinality(at(key)) <= 1
           /\ at("\"Name\"") # {} /\ "string" \in DOMAIN one("\"Name\"")
           /\ at("\"Fields\"") # {} /\ "array" \in DOMAIN one("\"Fields\"")
           /\ at("\"Description\"") # {} => "string" \in DOMAIN one("\"Description\"")
        THEN Ok([name |-> one("\"Name\"").string,
                 description |-> IF at("\"Description\"") = {} THEN None
                                 ELSE Some(one("\"Description\"").string),
                 fields |-> <<>>])
        ELSE Err("invalid schema")

\* parse_schema: the loop over the braces from the index-th character on
RECURSIVE parse_from(_, _)
parse_from(output, start) ==
    IF start > Len(output) THEN Err("Schema JSON object not found in output")
    ELSE IF output[start] = "{"
            /\ deserialize_schema(SubSeq(output, start, Len(output))).ok
    THEN deserialize_schema(SubSeq(output, start, Len(output)))
    ELSE parse_from(output, start + 1)

\* parse_schema: Result<Schema, _>
parse_schema(output) == parse_from(output, 1)

\* lines a script may hold around and inside its block
ScriptLines ==
    { <<"#", " ">> \o SCHEMA_START,
      <<"/", "/">> \o SCHEMA_END,
      <<"#", " ">> \o SCHEMA_END,
      <<"#", " ", "{">>,
      <<" ", "/", "/", "}">>,
      <<"{">>,
      <<>>,
      <<"#", " ">> }

\* the prefixes given to extract_schema_block
PrefixLists == { << <<"#">>, <<"/", "/">> >>, << <<"#">> >> }

\* schema texts, line by line: on one line, after an empty line, on several
\* indented lines, with an empty line inside, with keys in another order,
\* and one cut short
SchemaTexts ==
    { << <<"{", "\"Name\"", ":", "\"deploy\"", ",", "\"Fields\"", ":", "[", "]", "}">> >>,
      << <<>>,
         <<"{", "\"Name\"", ":", "\"cleanup\"", ",", "\"Fields\"", ":", "[", "]", "}">> >>,
      << <<"{">>,
         <<" ", " ", "\"Name\"", ":", " ", "\"deploy\"", ",">>,
         <<" ", " ", "\"Fields\"", ":", " ", "[", "]">>,
         <<"}">> >>,
      << <<"{">>,
         <<" ", " ", "\"Fields\"", ":", " ", "[", "]", ",">>,
         <<>>,
         <<" ", " ", "\"Description\"", ":", " ", "\"deploy\"", ",">>,
         <<" ", " ", "\"Name\"", ":", " ", "\"cleanup\"">>,
         <<" ", "}">> >>,
      << <<" ", "{", "\"Name\"", ":", "\"cleanup\"", ",">>,
         <<" ", "\"Fields\"", ":", "[", "]", "}">> >>,
      << <<"{">>,
         <<" ", " ", "\"Name\"", ":", " ", "\"deploy\"", ",">>,
         <<" ", " ", "\"Fields\"", ":", " ", "[">> >> }

\* a text written as a commented block between the two sentinels
commented_block(text, prefix, indent) ==
    LET commented(line) == indent \o prefix \o <<" ">> \o line
    IN  <<commented(SCHEMA_START)>>
          \o [i \in 1..Len(text) |-> commented(text[i])]
          \o <<commented(SCHEMA_END)>>

\* scripts of up to MaxLines lines, and scripts that hold a schema text as
\* a commented block after a first line
BlockCalls ==
    { [contents |-> join(ls, <<"\n">>), prefixes |-> prefixes, text |-> None] :
        ls \in UNION { [1..n -> ScriptLines] : n \in 0..MaxLines },
        prefixes \in PrefixLists }
    \cup
    { [contents |-> join(<<first>> \o commented_block(text, prefix, indent), <<"\n">>),
       prefixes |-> << <<"#">>, <<"/", "/">> >>, text |-> Some(text)] :
        first \in { <<>>, <<"#", "!", "sh">> },
        text \in SchemaTexts,
        prefix \in { <<"#">>, <<"/", "/">> },
        indent \in { <<>>, <<" ">> } }

BlockInit ==
    /\ history = <<>>
    /\ history_dir = StoredHistory(history)
    /\ history_writable = TRUE
    /\ call \in { Some(c) : c \in BlockCalls }
    /\ returned = None
    /\ resolutions = 0
    /\ activeFile = None
    /\ current_dir = Root
    /\ entries = Entries
    /\ AppNew
    /\ db = EmptyTables

\* extract_schema_block, and parse_schema of the block it returns
ExtractAndParse ==
    /\ returned = None
    /\ LET block == extract_schema_block(call[1].contents, call[1].prefixes)
       IN  returned' = Some([block |-> block,
                             schema |-> IF block.ok THEN Some(parse_schema(block.value))
                                        ELSE None])
    /\ UNCHANGED callRest

BlockNext == ExtractAndParse

SpecBlock == BlockInit /\ [][BlockNext]_vars

\* a line carries one of the accepted comment prefixes
HasPrefix(line, prefixes) ==
    \E i \in 1..Len(prefixes) : starts_with(trim_start(line), prefixes[i])

\* what a line says once the first prefix it carries and white space are taken off
Said(line, prefixes) ==
    LET p == prefixes[CHOOSE i \in 1..Len(prefixes) :
                        /\ starts_with(trim_start(line), prefixes[i])
                        /\ \A j \in 1..(i - 1) : ~starts_with(trim_start(line), prefixes[j])]
    IN  trim(SubSeq(trim_start(line), Len(p) + 1, Len(trim_start(line))))

\* the first line from line `from` on that is a sentinel, 0 if there is none
FirstSentinel(ls, prefixes, sentinel, from) ==
    LET is == { i \in from..Len(ls) : HasPrefix(ls[i], prefixes) /\ Said(ls[i], prefixes) = sentinel }
    IN  IF is = {} THEN 0 ELSE CHOOSE i \in is : \A j \in is : i <= j

\* what the claim says of a call, where the lines between the sentinels
\* that carry no prefix are those of `bare`
OutcomeAsClaimed(block, ls, prefixes, start, end, bare) ==
    /\ block.ok => (start # 0 /\ end # 0 /\ bare = {})
    /\ (start # 0 /\ end # 0 /\ bare # {}) =>
          block = ErrAtLine("Schema block line missing comment prefix",
                            CHOOSE i \in bare : \A j \in bare : i <= j)
    /\ (start # 0 /\ end # 0 /\ bare = {}
          /\ \A i \in (start + 1)..(end - 1) :
                HasPrefix(ls[i], prefixes) => Said(ls[i], prefixes) = <<>>) =>
          block = Err("Schema block is empty")
    /\ (start = 0 \/ (end = 0 /\ bare = {})) =>
          block = Err("Schema block not found")

\* the first start sentinel of the contents of the call, 0 if none
StartLine ==
    FirstSentinel(lines(call[1].contents), call[1].prefixes, SCHEMA_START, 1)

\* the first end sentinel after it, 0 if none
EndLine ==
    IF StartLine = 0 THEN 0
    ELSE FirstSentinel(lines(call[1].contents), call[1].prefixes, SCHEMA_END,
                       StartLine + 1)

\* the lines after the start sentinel, up to the end sentinel if there is
\* one, that carry no prefix
BareLines ==
    LET ls == lines(call[1].contents)
    IN  IF StartLine = 0 THEN {}
        ELSE { i \in (StartLine + 1)..(IF EndLine = 0 THEN Len(ls) ELSE EndLine - 1) :
                 ~HasPrefix(ls[i], call[1].prefixes) }

----------------------------------------------------------------------------
(* Properties of a schema text written as a commented block (claim C27),  *)
(* of SpecBlock                                                           *)

----------------------------------------------------------------------------
(* Activating and deactivating environments (claim C28)                   *)

\* set_active_env: Result<(), String>, as its ok, and the pointer file after
\* the call
set_active_env(pointer, name) ==
    IF name = None THEN [ok |-> TRUE, pointer |-> None]
    ELSE IF ~is_env_file(NameText(name[1])) THEN [ok |-> FALSE, pointer |-> pointer]
    ELSE [ok |-> TRUE, pointer |-> Some(pointer_text(name[1]))]

\* App::activate_selected_env and App::deactivate_env: set_active_env, and
\* load_env_config when it succeeded
SetActive(name) ==
    /\ KeyReady
    /\ LET done == set_active_env(activeFile, name)
       IN  /\ activeFile' = done.pointer
           /\ call' = Some([name |-> name, pointer |-> activeFile])
           /\ returned' = Some(done.ok)
           /\ env_config' = IF done.ok THEN load_environment_config(done.pointer)
                            ELSE env_config
           /\ env_entries' = IF done.ok THEN list_env_files(EnvFileNames)
                             ELSE env_entries
           /\ env_selection' = IF done.ok
                               THEN env_selected(env_entries', env_config', env_selection)
                               ELSE env_selection
    /\ UNCHANGED <<screen, navVars, formVars, should_quit, histVars, running, now, runs,
                   searchVars, indexVars, widgetVars, processes, reloaded,
                   history_writable, resolutions>>

\* App::activate_selected_env, for a name that load_env_config listed; the
\* file may have been removed since
ActivateSelectedEnv == \E name \in EnvFileNames \cup {"gone"} : SetActive(Some(name))

\* App::deactivate_env
DeactivateEnv == SetActive(None)

EnvNext ==
    \/ \E delta \in {-1, 1} : MoveSelection(delta)
    \/ EnterSelected
    \/ LeaveForm
    \/ ActivateSelectedEnv
    \/ DeactivateEnv
    \/ QuitKey

SpecEnv == SessionInit /\ [][EnvNext]_vars

\* C28: after any sequence of activations and deactivations the active
\* environment that loading reports is the name of the most recent
\* successful activation, or none if a deactivation came later; an
\* activation whose file does not exist fails and leaves the pointer file
\* and the reported environment unchanged
C28_ActiveIsLastActivated ==
    call # None =>
        /\ (returned = Some(TRUE) /\ call[1].name # None) =>
              load_active_env_name(activeFile) = Some(NameText(call[1].name[1]))
        /\ (returned = Some(TRUE) /\ call[1].name = None) =>
              load_active_env_name(activeFile) = None
        /\ (call[1].name # None /\ call[1].name[1] \notin EnvFileNames) =>
              /\ returned = Some(FALSE)
              /\ activeFile = call[1].pointer

----------------------------------------------------------------------------
(* load_env_preview called on two files (claim C29)                       *)

\* most lines of an environment file that is previewed
MaxEnvLines == 2

\* str::contains
str_contains(text, token) ==
    \E i \in 0..(Len(text) - Len(token)) : SubSeq(text, i + 1, i + Len(token)) = token

SensitiveTokens ==
    { <<"p","a","s","s","w","o","r","d">>, <<"s","e","c","r","e","t">>,
      <<"t","o","k","e","n">>, <<"k","e","y">>, <<"a","p","i">>,
      <<"p","r","i","v","a","t","e">>, <<"c","r","e","d">> }

\* is_sensitive_key as it would be if it compared the key as it is written
is_sensitive_key_as_written(key) ==
    \E token \in SensitiveTokens : str_contains(key, token)

\* is_sensitive_key
is_sensitive_key(key) ==
    \E token \in SensitiveTokens : str_contains(to_lowercase(key), token)

\* str::strip_prefix("export "), and the trim that follows it
strip_export(trimmed) ==
    IF starts_with(trimmed, <<"e","x","p","o","r","t"," ">>)
    THEN trim(SubSeq(trimmed, 8, Len(trimmed)))
    ELSE trimmed

\* str::splitn(2, '='): the text before the first '=' and the text after it
splitn_2(text) ==
    IF \E i \in 1..Len(text) : text[i] = "="
    THEN LET n == CHOOSE i \in 1..Len(text) :
                     text[i] = "=" /\ \A j \in 1..(i - 1) : text[j] # "="
         IN  <<SubSeq(text, 1, n - 1), SubSeq(text, n + 1, Len(text))>>
    ELSE <<text>>

\* load_env_preview: the loop over the lines, Vec<(String, String)>
RECURSIVE preview_entries(_)
preview_entries(ls) ==
    IF ls = <<>> THEN <<>>
    ELSE
      LET line == trim(Head(ls))
          parts == splitn_2(strip_export(line))
          key == trim(parts[1])
          raw_value == IF Len(parts) = 2 THEN trim(parts[2]) ELSE <<>>
          value == trim(strip_quotes(raw_value))
      IN  IF \/ line = <<>> \/ starts_with(line, <<"#">>) \/ starts_with(line, <<";">>)
             \/ key = <<>>
          THEN preview_entries(Tail(ls))
          ELSE << <<key, IF is_sensitive_key(key) /\ value # <<>>
                         THEN <<"*","*","*">> ELSE value>> >>
               \o preview_entries(Tail(ls))

\* load_env_preview, of the text of a file that can be read
load_env_preview(contents) == preview_entries(lines(contents))

\* keys of lines: one for each sensitive word, in several letter cases and
\* inside longer names
PreviewKeys ==
    { <<"D","B","_","P","a","s","s","w","o","r","d">>, <<"S","E","C","R","E","T">>,
      <<"T","o","k","e","n">>, <<"m","o","n","K","E","Y">>, <<"A","p","i">>,
      <<"P","R","I","V","A","T","E">>, <<"c","r","e","d","s">> }

\* values as written: none, quoted, quoted and empty
PreviewValues == { <<>>, <<"\"", "b", " ", "c", "\"">>, <<"'", "'">> }

\* a value as written that no line of PreviewLines holds
OtherSecret == <<"'", "z", "=", "1", "'">>

\* a line as (key, text up to the value, value as written)
PreviewLines ==
    { [key |-> key, before |-> key \o <<"=">>, raw |-> raw] :
        key \in PreviewKeys, raw \in PreviewValues }
    \cup
    { [key |-> <<"h","o","s","t">>, before |-> <<"h","o","s","t","=">>,
       raw |-> <<"\"", "b", " ", "c", "\"">>],
      [key |-> <<"T","O","K","E","N">>,
       before |-> <<"e","x","p","o","r","t"," "," ","T","O","K","E","N"," ","="," ">>,
       raw |-> <<"a">>],
      [key |-> <<>>, before |-> <<"#"," ","k","e","y","=","a">>, raw |-> <<>>] }

\* the value a line gives: what is written, without outer quotes and white
\* space
ValueOf(raw) == trim(strip_quotes(raw))

\* a key holds one of the sensitive words, in any letter case
IsSensitive(key) ==
    \E token \in SensitiveTokens : \E i \in 0..(Len(key) - Len(token)) :
        to_lowercase(SubSeq(key, i + 1, i + Len(token))) = token

\* the files that differ from a file only in non-empty values of sensitive
\* keys: some of these values are another secret
RECURSIVE OtherFiles(_)
OtherFiles(file) ==
    IF file = <<>> THEN { <<>> }
    ELSE LET line == Head(file)
             lines_for == IF IsSensitive(line.key) /\ ValueOf(line.raw) # <<>>
                          THEN { line, [line EXCEPT !.raw = OtherSecret] }
                          ELSE { line }
         IN  { <<l>> \o rest : l \in lines_for, rest \in OtherFiles(Tail(file)) }

\* the text of a file
FileText(file) == join([i \in 1..Len(file) |-> file[i].before \o file[i].raw], <<"\n">>)

PreviewInit ==
    /\ history = <<>>
    /\ history_dir = StoredHistory(history)
    /\ history_writable = TRUE
    /\ \E file \in UNION { [1..n -> PreviewLines] : n \in 0..MaxEnvLines } :
          \E other \in OtherFiles(file) :
              call = Some([file |-> file, other |-> other])
    /\ returned = None
    /\ resolutions = 0
    /\ activeFile = None
    /\ current_dir = Root
    /\ entries = Entries
    /\ AppNew
    /\ db = EmptyTables

\* load_env_preview of each of the two files
LoadEnvPreview ==
    /\ returned = None
    /\ returned' = Some([file |-> load_env_preview(FileText(call[1].file)),
                         other |-> load_env_preview(FileText(call[1].other))])
    /\ UNCHANGED callRest

PreviewNext == LoadEnvPreview

SpecPreview == PreviewInit /\ [][PreviewNext]_vars

\* what the claim has a preview show: each key as written, with *** for a
\* non-empty value of a sensitive key and the value for any other
RECURSIVE Masked(_)
Masked(file) ==
    IF file = <<>> THEN <<>>
    ELSE LET line == Head(file)
         IN  (IF line.key = <<>> THEN <<>>
              ELSE << <<line.key,
                        IF IsSensitive(line.key) /\ ValueOf(line.raw) # <<>>
                        THEN <<"*","*","*">> ELSE ValueOf(line.raw)>> >>)
             \o Masked(Tail(file))

\* C29: the environment preview never reveals a sensitive value: two
\* environment files that differ only in the non-empty values of keys that
\* contain password, secret, token, key, api, private or cred, in any letter
\* case, give the same preview, in which those values are the placeholder
\* *** and the keys are written as in the file
C29_PreviewMasksSensitiveValues ==
    returned # None =>
        /\ returned[1].file = returned[1].other
        /\ returned[1].file = Masked(call[1].file)

C29_Witness ==
    /\ returned # None
    /\ call[1].file # call[1].other
    /\ Len(returned[1].file) = 2
    /\ returned[1].file[1] = << <<"m","o","n","K","E","Y">>, <<"*","*","*">> >>
    /\ returned[1].file[2] = << <<"h","o","s","t">>, <<"b"," ","c">> >>

----------------------------------------------------------------------------
(* run_app from its first statement (claim C30) *)

\* run_app has drawn the loading screen and has built no App yet: the App's
\* fields hold nothing, no process and no load is started
BeforeAppNew ==
    /\ screen = "Loading"
    /\ entries = <<>>
    /\ history = <<>>
    /\ selection = 0
    /\ preview_script = None
    /\ schema_cache = None
    /\ fields = <<>>
    /\ field_index = 0
    /\ field_inputs = <<>>
    /\ args = <<>>
    /\ error = None
    /\ selected_script = None
    /\ result = None
    /\ should_quit = FALSE
    /\ history_selection = 0
    /\ history_focus = "List"
    /\ env_config = load_environment_config(None)
    /\ running = None
    /\ now = 1
    /\ runs = 0
    /\ search_query = <<>>
    /\ search_results = <<>>
    /\ search_selection = 0
    /\ search_details = None
    /\ search_error = None
    /\ pending = None
    /\ status = [value |-> [tag |-> "Idle"], poisoned |-> FALSE]
    /\ search_status = status.value
    /\ worker = "unspawned"
    /\ txn = None
    /\ widget = None
    /\ widget_error = None
    /\ widget_loading = FALSE
    /\ widget_receiver = None
    /\ loads = <<>>
    /\ processes = {}
    /\ reloaded = None
    /\ env_entries = <<>>
    /\ env_selection = 0

\* main has made the workspace and the terminal and calls run_app; the
\* history directory holds what an earlier session recorded
StartupInit ==
    /\ history_dir \in { StoredHistory(<<>>), StoredHistory(<<OldEntry>>) }
    /\ history_writable = TRUE
    /\ call = None
    /\ returned = None
    /\ resolutions = 0
    /\ activeFile \in ActiveChoices
    /\ current_dir = Root
    /\ db = [script_index |-> {}, script_fields |-> {}]
    /\ BeforeAppNew

\* run_app up to its loop, when service.list_entries(workspace.root())
\* succeeds: the history is loaded and App::new builds the session
StartUpOk ==
    /\ screen = "Loading" /\ returned = None
    /\ entries' = Entries
    /\ \E listing \in read_dir(history_dir) : history' = load_entries(listing)
    /\ screen' = "ScriptSelect"
    /\ selection' = 0
    /\ preview_script' = update_schema_preview(0, None, None).preview_script
    /\ schema_cache' = update_schema_preview(0, None, None).schema_cache
    /\ env_config' = load_environment_config(activeFile)
    /\ widget_loading' = TRUE
    /\ widget_receiver' = Some(1)
    /\ loads' = << [dir |-> current_dir, phase |-> "running"] >>
    /\ processes' = preview_processes(Entries, 0, None)
    /\ env_entries' = list_env_files(EnvFileNames)
    /\ env_selection' = env_selected(env_entries', env_config', 0)
    /\ UNCHANGED <<formVars, should_quit, history_selection, history_focus,
                   history_dir, running, now, runs, activeFile, searchVars,
                   indexVars, current_dir, widget, widget_error, reloaded,
                   history_writable, call, returned, resolutions>>

\* run_app when service.list_entries(workspace.root()) fails: the question
\* mark returns the error to main, which restores the terminal and exits
StartUpErr ==
    /\ screen = "Loading" /\ returned = None
    /\ returned' = Some(Err(<<"read_dir failed">>))
    /\ UNCHANGED <<screen, navVars, formVars, should_quit, histVars, env_config,
                   running, now, runs, activeFile, searchVars, indexVars, widgetVars,
                   processes, reloaded, history_writable, call, resolutions,
                   env_entries, env_selection>>

StartupNext ==
    \/ StartUpOk
    \/ StartUpErr
    \/ \E delta \in {-1, 1} : MoveSelection(delta)
    \/ EnterSelected
    \/ \E delta \in {-1, 1} : MoveFieldSelection(delta)
    \/ \E ch \in TypedChars : AppendFieldChar(ch)
    \/ PopFieldChar
    \/ SubmitForm
    \/ LeaveForm
    \/ QuitKey
    \/ DismissError
    \/ OpenHistory
    \/ \E delta \in {-1, 1} : MoveHistorySelection(delta)
    \/ ToggleHistoryFocus
    \/ BackToList
    \/ StartRun
    \/ \E outcome \in RunOutcomes, elapsed \in {0, 1} : RunnerReturns(outcome, elapsed)

SpecStartup == StartupInit /\ [][StartupNext]_vars

\* run_app has returned: by its quit flag or with an error
SessionOver == should_quit \/ returned # None

\* C30: no catalog, schema or search failure ends the session. A step that
\* ends the session is a quit key (q on the script list, q or Esc on the
\* error screen), and a step in which a listing or a schema fails leaves the
\* session running, on the Error screen or with the message shown inline.
C30_OnlyQuitKeyEndsSession ==
    [][ /\ (SessionOver' /\ ~SessionOver) =>
              (KeyReady /\ screen \in {"ScriptSelect", "Error"} /\ should_quit')
        /\ ((error' # None /\ error' # error) \/ (returned' # None /\ returned = None)) =>
              (~SessionOver' /\ error' # None) ]_vars

----------------------------------------------------------------------------
(* The search screen over a store that may fail to open (claim C31) *)

\* SearchIndex::query as the session sees it: open_connection fails, or the
\* SELECT gives its rows
query_result(tables, text, opens) ==
    IF opens THEN Ok(query(tables, text)) ELSE Err("Open search db failed")

\* App::refresh_search_results up to the call of load_details, for either
\* result of the query
RefreshSearchResultsOn(queried) ==
    /\ search_results' = IF queried.ok THEN queried.value ELSE <<>>
    /\ search_error' = IF queried.ok THEN None ELSE Some(queried.message)
    /\ search_selection' = 0
    /\ DetailsRequested(search_results', 0)

\* App::enter_search
EnterSearchStore(opens) ==
    /\ MainIdle /\ screen = "ScriptSelect"
    /\ search_status' = SearchIndex_status(status)
    /\ screen' = "Search"
    /\ RefreshSearchResultsOn(query_result(db, search_query, opens))
    /\ UNCHANGED <<search_query, sessionVars, indexVars>>

\* App::append_search_char
AppendStoreChar(ch, opens) ==
    /\ MainIdle /\ screen = "Search"
    /\ Len(search_query) < MaxText
    /\ search_query' = Append(search_query, ch)
    /\ RefreshSearchResultsOn(query_result(db, search_query', opens))
    /\ UNCHANGED <<screen, search_status, sessionVars, indexVars>>

\* App::pop_search_char
PopStoreChar(opens) ==
    /\ MainIdle /\ screen = "Search"
    /\ search_query' = IF search_query = <<>> THEN <<>>
                       ELSE SubSeq(search_query, 1, Len(search_query) - 1)
    /\ RefreshSearchResultsOn(query_result(db, search_query', opens))
    /\ UNCHANGED <<screen, search_status, sessionVars, indexVars>>

\* SearchIndex::load_details returns Err (open_connection or a SELECT fails):
\* update_search_details stores the message and leaves the details None
LoadDetailsFails ==
    /\ pending # None
    /\ search_error' = Some("Open search db failed")
    /\ pending' = None
    /\ UNCHANGED <<screen, search_query, search_results, search_selection,
                   search_details, search_status, sessionVars, indexVars>>

StoreNext ==
    \/ \E opens \in BOOLEAN : EnterSearchStore(opens)
    \/ \E ch \in {"a", "B"}, opens \in BOOLEAN : AppendStoreChar(ch, opens)
    \/ \E opens \in BOOLEAN : PopStoreChar(opens)
    \/ \E delta \in {-1, 1} : MoveSearchSelection(delta)
    \/ LeaveSearch
    \/ LoadDetailsBase
    \/ LoadDetailsFields
    \/ LoadDetailsFails

SpecStore == QueryInit /\ [][StoreNext]_vars

\* C31: when opening or querying the store fails, the error is surfaced in
\* search_error and the results shown before the failure are kept: a step
\* that puts a message in search_error leaves search_results as they were.
C31_FailureKeepsResults ==
    [][ (search_error' # None /\ search_error' # search_error) =>
            search_results' = search_results ]_vars

----------------------------------------------------------------------------
(* adapters/workspace_repository.rs on a directory tree (claim C32) *)
(* A tree is a set of nodes [path, kind, readable]; a path is a sequence   *)
(* of names and a name a sequence of characters; kind is "dir", "file" or  *)
(* "other" (what is neither, a socket or a dangling link).                 *)

\* Path::extension: what follows the last point of the file name; none when
\* the name has no point or only the one it begins with
extension(name) ==
    LET points == { i \in 2..Len(name) : name[i] = "." }
    IN  IF points = {} THEN None
        ELSE LET last == CHOOSE i \in points : \A j \in points : j <= i
             IN  Some(SubSeq(name, last + 1, Len(name)))

\* runtime::script_kind
script_kind(path) ==
    LET ext == extension(path[Len(path)])
    IN  IF ext = None THEN None
        ELSE LET lowered == to_lowercase(ext[1])
             IN  IF lowered \in { <<"b","a","s","h">>, <<"s","h">> } THEN Some("Bash")
                 ELSE IF lowered = <<"p","s","1">> THEN Some("PowerShell")
                 ELSE IF lowered = <<"p","y">> THEN Some("Python")
                 ELSE None

\* should_skip_dir
should_skip_dir(path) ==
    LET name == path[Len(path)]
    IN  \/ name \in { <<".","h","i","s","t","o","r","y">>, <<".","g","i","t">> }
        \/ /\ name = <<"e","n","v","s">>
           /\ Len(path) >= 2
           /\ path[Len(path) - 1] = <<".","o","m","a","k","e","n">>

\* Path::is_dir, Path::is_file
is_dir(tree, path) == \E n \in tree : n.path = path /\ n.kind = "dir"
is_file(tree, path) == \E n \in tree : n.path = path /\ n.kind = "file"

\* fs::read_dir(dir): NotFound when there is no such directory, another
\* error when it may not be read, else the paths in it
fs_read_dir(tree, dir) ==
    IF ~is_dir(tree, dir) THEN Err("NotFound")
    ELSE IF \E n \in tree : n.path = dir /\ ~n.readable THEN Err("PermissionDenied")
    ELSE Ok({ n.path : n \in { c \in tree : Len(c.path) = Len(dir) + 1
                                            /\ SubSeq(c.path, 1, Len(dir)) = dir } })

\* entry_name
entry_name(path) == to_lowercase(path[Len(path)])

\* the comparison list_entries sorts by: directories first, then by name
entry_le(a, b) ==
    IF a.kind # b.kind THEN a.kind = "Directory"
    ELSE nocase_cmp(entry_name(a.path), entry_name(b.path)) <= 0

RECURSIVE sort_entries(_)
sort_entries(found) ==
    IF found = {} THEN <<>>
    ELSE LET first == CHOOSE a \in found : \A b \in found : entry_le(a, b)
         IN  <<first>> \o sort_entries(found \ {first})

\* FsWorkspaceRepository::list_entries
list_entries(tree, dir) ==
    LET read == fs_read_dir(tree, dir)
    IN  IF ~read.ok
        THEN IF read.message = "NotFound" THEN Ok(<<>>) ELSE read
        ELSE LET dirs == { [path |-> p, kind |-> "Directory"] :
                             p \in { q \in read.value :
                                       is_dir(tree, q) /\ ~should_skip_dir(q) } }
                 scripts == { [path |-> p, kind |-> "Script"] :
                                p \in { q \in read.value :
                                          /\ ~is_dir(tree, q)
                                          /\ is_file(tree, q)
                                          /\ script_kind(q) # None } }
             IN  Ok(sort_entries(dirs \cup scripts))

\* the paths of a directory in the order read_dir gives them, here by name
RECURSIVE in_directory_order(_)
in_directory_order(paths) ==
    IF paths = {} THEN <<>>
    ELSE LET first == CHOOSE p \in paths :
                          \A q \in paths : nocase_cmp(p[Len(p)], q[Len(q)]) <= 0
         IN  <<first>> \o in_directory_order(paths \ {first})

\* collect_scripts as it would be if it went into every directory
RECURSIVE collect_scripts_everywhere(_, _)
collect_scripts_everywhere(tree, dir) ==
    LET read == fs_read_dir(tree, dir)
        RECURSIVE loop(_, _)
        loop(rest, scripts) ==
            IF rest = <<>> THEN Ok(scripts)
            ELSE LET path == Head(rest)
                 IN  IF is_dir(tree, path)
                     THEN LET inner == collect_scripts_everywhere(tree, path)
                          IN  IF inner.ok
                              THEN loop(Tail(rest), scripts \o inner.value)
                              ELSE inner
                     ELSE IF is_file(tree, path) /\ script_kind(path) # None
                     THEN loop(Tail(rest), Append(scripts, path))
                     ELSE loop(Tail(rest), scripts)
    IN  IF ~read.ok
        THEN IF read.message = "NotFound" THEN Ok(<<>>) ELSE read
        ELSE loop(in_directory_order(read.value), <<>>)

\* collect_scripts: what it appends to scripts, or the error it returns
RECURSIVE collect_scripts(_, _)
collect_scripts(tree, dir) ==
    LET read == fs_read_dir(tree, dir)
        RECURSIVE loop(_, _)
        loop(rest, scripts) ==
            IF rest = <<>> THEN Ok(scripts)
            ELSE LET path == Head(rest)
                 IN  IF is_dir(tree, path)
                     THEN IF should_skip_dir(path)
                          THEN loop(Tail(rest), scripts)
                          ELSE LET inner == collect_scripts(tree, path)
                               IN  IF inner.ok
                                   THEN loop(Tail(rest), scripts \o inner.value)
                                   ELSE inner
                     ELSE IF is_file(tree, path) /\ script_kind(path) # None
                     THEN loop(Tail(rest), Append(scripts, path))
                     ELSE loop(Tail(rest), scripts)
    IN  IF ~read.ok
        THEN IF read.message = "NotFound" THEN Ok(<<>>) ELSE read
        ELSE loop(in_directory_order(read.value), <<>>)

\* The names of the workspaces listed here
N_git == <<".","g","i","t">>
N_history == <<".","h","i","s","t","o","r","y">>
N_omaken == <<".","o","m","a","k","e","n">>
N_envs == <<"e","n","v","s">>
N_sub == <<"s","u","b">>
TreeRoot == << <<"w","s">> >>

Node(path, kind) == [path |-> TreeRoot \o path, kind |-> kind, readable |-> TRUE]

\* what a workspace may hold under each name of its root: nothing, or one of
\* the listed sets of nodes (a directory comes with some of its content)
UnderName ==
    << \* a script and a file that is none
       { {}, { Node(<< <<"a",".","s","h">> >>, "file") } },
       { {}, { Node(<< <<"n",".","t","x","t">> >>, "file") } },
       \* something named like a script that is no file
       { {}, { Node(<< <<"p",".","s","h">> >>, "other") } },
       \* the version-control folder, readable or not
       { {},
         { Node(<<N_git>>, "dir") },
         { Node(<<N_git>>, "dir"), Node(<<N_git, <<"h",".","s","h">> >>, "file") },
         { [Node(<<N_git>>, "dir") EXCEPT !.readable = FALSE] } },
       \* a folder named envs at the root
       { {},
         { Node(<<N_envs>>, "dir") },
         { Node(<<N_envs>>, "dir"), Node(<<N_envs, <<"e",".","p","y">> >>, "file") } },
       \* the flavor directory with its environments and a history folder
       { {},
         { Node(<<N_omaken>>, "dir") },
         { Node(<<N_omaken>>, "dir"), Node(<<N_omaken, <<"o",".","s","h">> >>, "file") },
         { Node(<<N_omaken>>, "dir"), Node(<<N_omaken, N_envs>>, "dir"),
           Node(<<N_omaken, N_envs, <<"x",".","s","h">> >>, "file") },
         { Node(<<N_omaken>>, "dir"), Node(<<N_omaken, N_history>>, "dir"),
           Node(<<N_omaken, N_history, <<"r",".","s","h">> >>, "file"),
           Node(<<N_omaken, <<"o",".","s","h">> >>, "file") } },
       \* a folder with a script in capitals and a directory named like a script
       { {},
         { Node(<<N_sub>>, "dir") },
         { [Node(<<N_sub>>, "dir") EXCEPT !.readable = FALSE] },
         { Node(<<N_sub>>, "dir"), Node(<<N_sub, <<"B",".","P","S","1">> >>, "file") },
         { Node(<<N_sub>>, "dir"), Node(<<N_sub, <<"c",".","s","h">> >>, "dir"),
           Node(<<N_sub, <<"c",".","s","h">>, <<"d",".","b","a","s","h">> >>, "file") },
         { Node(<<N_sub>>, "dir"), Node(<<N_sub, N_git>>, "dir"),
           Node(<<N_sub, N_git, <<"g",".","p","y">> >>, "file"),
           Node(<<N_sub, <<"B",".","P","S","1">> >>, "file") } } >>

\* the workspaces: no root at all, or a root with a choice under each name
RECURSIVE TreesFrom(_)
TreesFrom(k) ==
    IF k > Len(UnderName) THEN { { [path |-> TreeRoot, kind |-> "dir", readable |-> TRUE] } }
    ELSE { part \cup rest : part \in UnderName[k], rest \in TreesFrom(k + 1) }

Trees == { {} } \cup TreesFrom(1)

TreeInit ==
    /\ history = <<>>
    /\ history_dir = StoredHistory(history)
    /\ history_writable = TRUE
    /\ call \in { Some([tree |-> t]) : t \in Trees }
    /\ returned = None
    /\ resolutions = 0
    /\ activeFile = None
    /\ current_dir = Root
    /\ entries = Entries
    /\ AppNew
    /\ db = [script_index |-> {}, script_fields |-> {}]

\* FsWorkspaceRepository::list_scripts_recursive
ListScriptsRecursive ==
    /\ call # None /\ returned = None
    /\ returned' = Some(collect_scripts(call[1].tree, TreeRoot))
    /\ UNCHANGED callRest

TreeNext == ListScriptsRecursive

SpecTree == TreeInit /\ [][TreeNext]_vars

\* the Script entries reached from dir by going down through the Directory
\* entries that list_entries returns
RECURSIVE ReachedScripts(_, _)
ReachedScripts(tree, dir) ==
    LET listed == list_entries(tree, dir)
        shown == IF listed.ok THEN listed.value ELSE <<>>
    IN  { shown[i].path : i \in { j \in 1..Len(shown) : shown[j].kind = "Script" } }
        \cup UNION { ReachedScripts(tree, shown[i].path) :
                       i \in { j \in 1..Len(shown) : shown[j].kind = "Directory" } }

\* some directory on the way to path, below the root, has this name
Below(path, name) == \E i \in 2..(Len(path) - 1) : path[i] = name

\* C32: the scripts list_scripts_recursive returns are, as a set, the Script
\* entries reached from the root through the Directory entries of
\* list_entries; none of them lies in a version-control folder, a history
\* folder or the environments folder of the flavor directory, every script
\* file outside those is among them, and a workspace without a root gives the
\* empty result.
C32_RecursiveListingIsDescent ==
    (returned # None /\ returned[1].ok) =>
        LET tree == call[1].tree
            scripts == { returned[1].value[i] : i \in 1..Len(returned[1].value) }
            skipped(p) == \/ Below(p, N_git) \/ Below(p, N_history)
                          \/ \E i \in 3..(Len(p) - 1) :
                                p[i] = N_envs /\ p[i - 1] = N_omaken
        IN  /\ scripts = ReachedScripts(tree, TreeRoot)
            /\ Len(returned[1].value) = Cardinality(scripts)
            /\ scripts = { n.path : n \in { c \in tree :
                              /\ c.kind = "file" /\ script_kind(c.path) # None
                              /\ ~skipped(c.path)
                              /\ \A k \in 1..(Len(c.path) - 1) :
                                    is_dir(tree, SubSeq(c.path, 1, k)) } }
            /\ (tree = {} => scripts = {})

C32_Witness ==
    /\ returned # None /\ returned[1].ok
    /\ Len(returned[1].value) = 3
    /\ \E n \in call[1].tree : n.path = TreeRoot \o <<N_omaken, N_envs, <<"x",".","s","h">> >>
    /\ \E n \in call[1].tree : n.path = TreeRoot \o <<N_git, <<"h",".","s","h">> >>
    /\ \E i \in 1..3 : returned[1].value[i] = TreeRoot \o <<N_envs, <<"e",".","p","y">> >>
    /\ \E i \in 1..3 : returned[1].value[i] =
                          TreeRoot \o <<N_sub, <<"c",".","s","h">>, <<"d",".","b","a","s","h">> >>

----------------------------------------------------------------------------
(* The schema cache (claim C33): scripts are previewed on the list and     *)
(* opened from the list and from the search results of a rebuilt store.    *)

\* most calls of service.load_schema counted in one session
MaxResolutions == 4

cacheRest == <<runs, activeFile, searchVars, indexVars, widgetVars, processes,
               reloaded, history_writable, call, returned, env_entries, env_selection>>

CacheInit ==
    /\ history = <<>>
    /\ history_dir = StoredHistory(history)
    /\ history_writable = TRUE
    /\ call = None
    /\ returned = None
    /\ resolutions = 0
    /\ activeFile = None
    /\ current_dir = Root
    /\ entries = Entries
    /\ AppNew
    /\ db = RebuiltTables

\* App::move_selection; update_schema_preview calls service.load_schema when
\* the selected script is not the one previewed
MoveSelectionCounted(delta) ==
    /\ KeyReady /\ screen = "ScriptSelect"
    /\ Entries # <<>>
    /\ LET new_index == IF selection + delta < 0 THEN 0
                        ELSE IF selection + delta >= Len(Entries) THEN Len(Entries) - 1
                        ELSE selection + delta
           p == update_schema_preview(new_index, preview_script, schema_cache)
       IN  /\ selection' = new_index
           /\ preview_script' = p.preview_script
           /\ schema_cache' = p.schema_cache
           /\ resolutions' = resolutions +
                  Cardinality(preview_processes(Entries, new_index, preview_script))
    /\ resolutions' <= MaxResolutions
    /\ UNCHANGED <<screen, formVars, should_quit, histVars, env_config, running, now,
                   cacheRest>>

\* App::load_schema and its call of service.load_schema
OpenScript(script) ==
    /\ LoadSchema(script)
    /\ resolutions' = resolutions + IF cache_hit(schema_cache, script) THEN 0 ELSE 1
    /\ resolutions' <= MaxResolutions

\* App::enter_selected on a script
OpenSelected ==
    /\ KeyReady /\ screen = "ScriptSelect"
    /\ runs < MaxRuns
    /\ selected_entry(selection) # None
    /\ selected_entry(selection)[1].kind = "Script"
    /\ OpenScript(selected_entry(selection)[1].path)
    /\ UNCHANGED <<selection, preview_script, should_quit, histVars, running, now,
                   cacheRest>>

\* the script Enter opens on the search screen: workspace.root().join(script_path)
search_target == Root \o path_from_text(search_results[search_selection + 1].script_path)

\* App::open_selected_search
OpenSelectedSearch ==
    /\ MainIdle /\ screen = "Search"
    /\ search_selection < Len(search_results)
    /\ OpenScript(search_target)
    /\ UNCHANGED <<selection, preview_script, should_quit, histVars, running, now,
                   cacheRest>>

CacheNext ==
    \/ \E delta \in {-1, 1} : MoveSelectionCounted(delta)
    \/ OpenSelected
    \/ OpenSelectedSearch
    \/ EnterSearch
    \/ \E delta \in {-1, 1} : MoveSearchSelection(delta)
    \/ LoadDetailsBase
    \/ LoadDetailsFields
    \/ LeaveSearch
    \/ LeaveForm
    \/ DismissError

SpecCache == CacheInit /\ [][CacheNext]_vars

\* this step is load_schema(s): Enter on the script list with s selected, or
\* Enter on the search screen with the result of s selected
Opens(s) ==
    /\ \/ /\ KeyReady /\ screen = "ScriptSelect"
          /\ selected_entry(selection) = Some([path |-> s, kind |-> "Script"])
       \/ /\ MainIdle /\ screen = "Search"
          /\ search_selection < Len(search_results)
          /\ search_target = s
    /\ screen' \in {"FieldInput", "Error"} \/ result' # None

C34_DetailsInFormOrder ==
    (pending = None /\ search_details # None /\ read_schema(search_target).ok) =>
        LET shown == search_details[1].fields
            form == sort_by_order(read_schema(search_target).schema.fields)
        IN  [i \in 1..Len(shown) |-> shown[i].name] = [i \in 1..Len(form) |-> form[i].name]

----------------------------------------------------------------------------
(* safe_slug on its own (claim C35) *)

\* most letters at the beginning of a path text given to safe_slug
MaxSlugRun == 66

RECURSIVE Repeated(_, _)
Repeated(c, n) == IF n = 0 THEN <<>> ELSE <<c>> \o Repeated(c, n - 1)

\* path texts: a run of letters, then separators, then the end of a name
SlugInputs ==
    { Repeated("a", n) \o separators \o ending :
        n \in 0..MaxSlugRun,
        separators \in { <<>>, <<"/">>, <<"_", ".">>, <<"-", "-", "/">> },
        ending \in { <<>>, <<"B">>, <<"7", "_">>, <<".", "s", "h">> } }

SlugInit ==
    /\ history = <<>>
    /\ history_dir = StoredHistory(history)
    /\ history_writable = TRUE
    /\ call \in { Some([input |-> input]) : input \in SlugInputs }
    /\ returned = None
    /\ resolutions = 0
    /\ activeFile = None
    /\ current_dir = Root
    /\ entries = Entries
    /\ AppNew
    /\ db = EmptyTables

SafeSlug ==
    /\ returned = None
    /\ returned' = Some(safe_slug(call[1].input))
    /\ UNCHANGED callRest

SlugNext == SafeSlug

SpecSlug == SlugInit /\ [][SlugNext]_vars

\* C35: for every script path the slug is non-empty, no longer than the cap
\* of 64, made of lowercase ASCII letters, digits and underscores of which
\* no two are adjacent, and neither begins nor ends with an underscore; a
\* path with no alphanumeric character gives "run".
C35_SlugWellFormed ==
    returned # None =>
        LET slug == returned[1]
            input == call[1].input
        IN  /\ slug # <<>>
            /\ Len(slug) <= 64
            /\ \A i \in 1..Len(slug) :
                  \/ slug[i] = "_"
                  \/ slug[i] \in Digits
                  \/ \E k \in 1..26 : LowerChars[k] = slug[i]
            /\ \A i \in 1..(Len(slug) - 1) : ~(slug[i] = "_" /\ slug[i + 1] = "_")
            /\ slug[1] # "_"
            /\ slug[Len(slug)] # "_"
            /\ (\A i \in 1..Len(input) : ~is_ascii_alphanumeric(input[i])) =>
                  slug = <<"r", "u", "n">>

----------------------------------------------------------------------------
(* The list cursors of one session (claim C36)                            *)

\* everything but the environment state and the screen
envRest == <<navVars, formVars, should_quit, histVars, running, now, runs, searchVars,
             indexVars, widgetVars, processes, reloaded, history_writable, call,
             returned, resolutions>>

\* what the environments directory can hold when it is listed: the file an
\* editor leaves next to dev comes and goes
EnvDirectories == { EnvFileNames, {"dev"} }

\* A session over a workspace with one earlier run in its history, no active
\* environment and the search store an earlier session left
CursorInit ==
    /\ history = <<OldEntry>>
    /\ history_dir = StoredHistory(history)
    /\ history_writable = TRUE
    /\ call = None
    /\ returned = None
    /\ resolutions = 0
    /\ activeFile = None
    /\ current_dir = Root
    /\ entries = Entries
    /\ AppNew
    /\ db = StoredTables

\* App::load_env_config: the pointer file is read again and the directory is
\* listed again; files is what the directory holds at that moment
LoadEnvConfig(pointer, files) ==
    /\ env_config' = load_environment_config(pointer)
    /\ env_entries' = list_env_files(files)
    /\ env_selection' = env_selected(env_entries', env_config', env_selection)

\* App::enter_selected on a script: load_schema, which calls load_env_config
\* when the schema was resolved
EnterSelectedScript_env(files) ==
    /\ KeyReady /\ screen = "ScriptSelect"
    /\ runs < MaxRuns
    /\ selected_entry(selection) # None
    /\ selected_entry(selection)[1].kind = "Script"
    /\ LET script == selected_entry(selection)[1].path
       IN  /\ LoadSchema(script)
           /\ IF cache_hit(schema_cache, script) \/ read_schema(script).ok
              THEN /\ env_entries' = list_env_files(files)
                   /\ env_selection' = env_selected(env_entries', env_config', env_selection)
              ELSE UNCHANGED <<env_entries, env_selection>>
    /\ UNCHANGED <<selection, preview_script, should_quit, histVars, running, now,
                   activeFile, runs, searchVars, indexVars, widgetVars, processes,
                   reloaded, history_writable, call, returned, resolutions>>

\* r, R or F5 on the script list: App::refresh_entries of the directory shown,
\* which can be read or not
RefreshEntriesShown(readable) ==
    /\ KeyReady /\ screen = "ScriptSelect"
    /\ IF readable
       THEN /\ Len(loads) < MaxLoads
            /\ entries' = Entries
            /\ selection' = 0
            /\ error' = None
            /\ StartWidgetLoad(current_dir)
            /\ preview_script' =
                   update_schema_preview(0, preview_script, schema_cache).preview_script
            /\ schema_cache' =
                   update_schema_preview(0, preview_script, schema_cache).schema_cache
            /\ UNCHANGED screen
       ELSE /\ error' = Some("read_dir failed")
            /\ screen' = "Error"
            /\ UNCHANGED <<entries, selection, preview_script, schema_cache, widget,
                           widget_error, widget_loading, widget_receiver, loads>>
    /\ UNCHANGED <<current_dir, treeFormRest, should_quit, histVars, env_config, running,
                   now, runs, activeFile, searchVars, indexVars, procVars>>

\* App::enter_envs, from the script list
EnterEnvs(files) ==
    /\ KeyReady /\ screen = "ScriptSelect"
    /\ LoadEnvConfig(activeFile, files)
    /\ screen' = "Environments"
    /\ UNCHANGED <<envRest, activeFile>>

\* App::exit_envs: back to the screen enter_envs came from
ExitEnvs ==
    /\ KeyReady /\ screen = "Environments"
    /\ screen' = "ScriptSelect"
    /\ UNCHANGED <<envRest, activeFile, env_config, env_entries, env_selection>>

\* App::move_env_selection
MoveEnvSelection(delta) ==
    /\ KeyReady /\ screen = "Environments"
    /\ env_entries # <<>>
    /\ env_selection' = IF env_selection + delta < 0 THEN 0
                        ELSE IF env_selection + delta >= Len(env_entries)
                        THEN Len(env_entries) - 1
                        ELSE env_selection + delta
    /\ UNCHANGED <<screen, envRest, activeFile, env_config, env_entries>>

\* App::activate_selected_env: the listed name under the cursor is written to
\* the pointer file if its file is still there, and load_env_config follows
ActivateSelectedEnvListed(files) ==
    /\ KeyReady /\ screen = "Environments"
    /\ env_entries # <<>>
    /\ LET name == env_entries[env_selection + 1]
       IN  IF name \in files
           THEN /\ activeFile' = set_active_env(activeFile, Some(name)).pointer
                /\ LoadEnvConfig(activeFile', files)
           ELSE UNCHANGED <<activeFile, env_config, env_entries, env_selection>>
    /\ UNCHANGED <<screen, envRest>>

\* App::deactivate_env on the environments screen
DeactivateEnvListed(files) ==
    /\ KeyReady /\ screen = "Environments"
    /\ activeFile' = set_active_env(activeFile, None).pointer
    /\ LoadEnvConfig(activeFile', files)
    /\ UNCHANGED <<screen, envRest>>

CursorNext ==
    \/ \E delta \in {-1, 1} : MoveSelection(delta)
    \/ \E files \in EnvDirectories : EnterSelectedScript_env(files)
    \/ \E readable \in BOOLEAN : RefreshEntriesShown(readable)
    \/ \E delta \in {-1, 1} : MoveFieldSelection(delta)
    \/ SubmitForm
    \/ LeaveForm
    \/ DismissError
    \/ OpenHistory
    \/ \E delta \in {-1, 1} : MoveHistorySelection(delta)
    \/ BackToList
    \/ StartRun
    \/ \E outcome \in RunOutcomes : outcome.success /\ RunnerReturns(outcome, 0)
    \/ EnterSearch
    \/ AppendSearchChar("e")
    \/ PopSearchChar
    \/ \E delta \in {-1, 1} : MoveSearchSelection(delta)
    \/ LeaveSearch
    \/ LoadDetailsBase
    \/ LoadDetailsFields
    \/ \E files \in EnvDirectories : EnterEnvs(files)
    \/ \E delta \in {-1, 1} : MoveEnvSelection(delta)
    \/ \E files \in EnvDirectories : ActivateSelectedEnvListed(files)
    \/ \E files \in EnvDirectories : DeactivateEnvListed(files)
    \/ ExitEnvs

SpecCursors == CursorInit /\ [][CursorNext]_vars

\* a cursor is a valid index of its list, or the list is empty
valid_cursor(cursor, list) == list # <<>> => cursor \in 0..(Len(list) - 1)

----------------------------------------------------------------------------
(* The form screen (claim C37)                                            *)

\* what load_schema leaves behind when it shows the form
FormWellFormed ==
    /\ selected_script # None
    /\ fields # <<>>
    /\ SortedByOrder(fields)
    /\ Len(field_inputs) = Len(fields)

\* C37: whenever the screen is FieldInput a script is selected, the field list
\* is not empty and is sorted by ascending order, and there is one input
\* buffer per field; so no step taken on the form, a submission included,
\* ends the session through the branch of finish that has no selected script
C37_FormHasScriptAndFields ==
    /\ [](screen = "FieldInput" => FormWellFormed)
    /\ [][screen = "FieldInput" => should_quit' = should_quit]_vars

\* a submission of the two-field form went through finish: the execution
\* request holds the selected script, and the session goes on
C37_Witness ==
    /\ screen = "FieldInput"
    /\ Len(fields) = 2
    /\ result # None /\ result[1].script = selected_script[1]
    /\ ~should_quit

----------------------------------------------------------------------------
(* The directory shown (claim C38)                                        *)

\* Path::starts_with(root): the root or one of its descendants
is_under_root(dir) == Len(dir) >= Len(Root) /\ SubSeq(dir, 1, Len(Root)) = Root

\* C38: current_dir is the workspace root or one of its descendants, and on
\* the script list the entries displayed are the listing of current_dir, also
\* after a listing failed during enter_selected or navigate_up and the Error
\* screen was dismissed
C38_EntriesAreOfCurrentDir ==
    /\ is_under_root(current_dir)
    /\ screen = "ScriptSelect" => entries = TreeEntries(current_dir)

----------------------------------------------------------------------------
(* The count the worker publishes and the records it commits (claim C39)  *)

\* File names are bytes: the bytes 0xFE and 0xFF occur in no UTF-8 text
InvalidBytes == {"\\xFE", "\\xFF"}

\* U+FFFD, what a lossy conversion writes for a byte that is not UTF-8
REPLACEMENT_CHARACTER == "U+FFFD"

\* the names of the scripts a workspace root can hold here
RawNames ==
    << <<"a", ".", "s", "h">>,
       <<"a", "\\xFE", ".", "s", "h">>,
       <<"a", "\\xFF", ".", "s", "h">>,
       <<"b", ".", "s", "h">> >>

\* OsStr::to_str: the text of a name, if the name is UTF-8
to_str(name) ==
    IF \E i \in 1..Len(name) : name[i] \in InvalidBytes THEN None ELSE Some(name)

\* Path::to_string_lossy of a name: each byte that is not UTF-8 becomes U+FFFD
name_to_string_lossy(name) ==
    [i \in 1..Len(name) |-> IF name[i] \in InvalidBytes THEN REPLACEMENT_CHARACTER
                            ELSE name[i]]

\* list_scripts_recursive of a root that holds the scripts of one subset of
\* RawNames and no directory
RECURSIVE CatalogOf(_, _)
CatalogOf(chosen, k) ==
    IF k > Len(RawNames) THEN <<>>
    ELSE (IF k \in chosen THEN <<RawNames[k]>> ELSE <<>>) \o CatalogOf(chosen, k + 1)

Catalogs == { CatalogOf(chosen, 1) : chosen \in SUBSET (1..Len(RawNames)) }

\* rebuild_index, the body of its loop for a script of the root whose schema
\* does not resolve: relative_str, file_name and the row inserted
insert_raw_script(tables, name) ==
    index_script(tables,
                 name_to_string_lossy(name),
                 IF to_str(name) = None THEN <<"s","c","r","i","p","t">> ELSE to_str(name)[1],
                 [ok |-> FALSE, message |-> "Schema mode failed",
                  schema |-> [name |-> <<>>, fields |-> <<>>]])

\* A session over a workspace whose root holds one of the catalogs; the store
\* is new or left by an earlier session
CountInit ==
    /\ history = <<>>
    /\ history_dir = StoredHistory(history)
    /\ history_writable = TRUE
    /\ call \in { Some(catalog) : catalog \in Catalogs }
    /\ returned = None
    /\ resolutions = 0
    /\ activeFile = None
    /\ current_dir = Root
    /\ entries = Entries
    /\ AppNew
    /\ db \in { EmptyTables, StoredTables }

\* rebuild_index, one iteration of its loop over the scripts it listed
RebuildInsertsScript ==
    /\ worker = "inserting"
    /\ txn[1].next <= Len(call[1])
    /\ txn' = Some([tables |-> insert_raw_script(txn[1].tables, call[1][txn[1].next]),
                    next |-> txn[1].next + 1])
    /\ UNCHANGED <<screen, sessionVars, searchVars, status, worker, db>>

\* rebuild_index: tx.commit(), and Ok(scripts.len())
RebuildCommits ==
    /\ worker = "inserting"
    /\ txn[1].next > Len(call[1])
    /\ db' = txn[1].tables
    /\ txn' = None
    /\ worker' = "committed"
    /\ UNCHANGED <<screen, sessionVars, searchVars, status>>

\* the worker's last statement after Ok(count)
RebuildPublishesReady ==
    /\ worker = "committed"
    /\ status' = update_status(status,
                     status_after_rebuild([ok |-> TRUE, count |-> Len(call[1]),
                                           message |-> ""]))
    /\ worker' = "done"
    /\ UNCHANGED <<screen, sessionVars, searchVars, txn, db>>

CountNext ==
    \/ StartBackgroundRebuild
    \/ WorkerBegins
    \/ WorkerOpensTransaction
    \/ RebuildInsertsScript
    \/ RebuildCommits
    \/ RebuildPublishesReady
    \/ EnterSearch
    \/ LoadDetailsBase
    \/ LoadDetailsFields
    \/ LeaveSearch

SpecCount == CountInit /\ [][CountNext]_vars

\* C39: whenever the shared status is Ready(n) the committed store holds
\* exactly n records and query("") returns exactly n results
C39_ReadyCountsRecords ==
    status.value.tag = "Ready" =>
        /\ Cardinality(db.script_index) = status.value.script_count
        /\ Len(query(db, <<>>)) = status.value.script_count

----------------------------------------------------------------------------
(* scroll_env_preview on its own (claim C40)                              *)

\* the offsets and the deltas scroll_env_preview is called with here
ScrollOffsets == {0, 1, 4, 5, 100, 2^15 - 1, 2^15, 2^15 + 5, 2^16 - 2, 2^16 - 1}
ScrollDeltas == {-(2^15), -100, -5, -1, 0, 1, 5, 100, 2^15 - 1}

\* `as i16` of a u16 or of an integer: the low 16 bits, read as two's complement
as_i16(n) == LET low == n % 2^16 IN IF low >= 2^15 THEN low - 2^16 ELSE low

\* `as u16` of an i16: the low 16 bits
as_u16(n) == n % 2^16

\* i16 + i16: a sum outside the range panics in a build with overflow checks
\* and wraps in a build without them
i16_add(a, b) ==
    IF a + b < -(2^15) \/ a + b > 2^15 - 1
    THEN { Err("attempt to add with overflow"), Ok(as_i16(a + b)) }
    ELSE { Ok(a + b) }

\* App::scroll_env_preview: the outcomes of one call, the new offset or a panic
scroll_env_preview(env_preview_scroll, delta) ==
    { IF ~sum.ok THEN sum
      ELSE LET next1 == IF sum.value < 0 THEN 0 ELSE sum.value
               next2 == IF next1 > as_i16(2^16 - 1) THEN as_i16(2^16 - 1) ELSE next1
           IN  Ok(as_u16(next2))
      : sum \in i16_add(as_i16(env_preview_scroll), delta) }

\* the environments screen with some offset, and a call with some delta
ScrollInit ==
    /\ history = <<>>
    /\ history_dir = StoredHistory(history)
    /\ history_writable = TRUE
    /\ call \in { Some([env_preview_scroll |-> offset, delta |-> delta]) :
                     offset \in ScrollOffsets, delta \in ScrollDeltas }
    /\ returned = None
    /\ resolutions = 0
    /\ activeFile = None
    /\ current_dir = Root
    /\ entries = Entries
    /\ AppNew
    /\ db = EmptyTables

\* one call of App::scroll_env_preview
ScrollEnvPreview ==
    /\ returned = None
    /\ \E outcome \in scroll_env_preview(call[1].env_preview_scroll, call[1].delta) :
          returned' = Some(outcome)
    /\ UNCHANGED callRest

ScrollNext == ScrollEnvPreview

SpecScroll == ScrollInit /\ [][ScrollNext]_vars

\* the previous offset plus delta, held within 0..65535
clamped_sum(offset, delta) ==
    IF offset + delta < 0 THEN 0
    ELSE IF offset + delta > 2^16 - 1 THEN 2^16 - 1
    ELSE offset + delta

\* C40: scroll_env_preview(delta) sets the offset to the previous offset plus
\* delta, clamped to 0..65535, for every previous offset and every delta
C40_ScrollClampsSum ==
    returned # None =>
        /\ returned[1].ok
        /\ returned[1].value = clamped_sum(call[1].env_preview_scroll, call[1].delta)

====
